---- MODULE Spec2Model ----
(***************************************************************************)
(* A model of the ahnlich Python client (sdk/ahnlich-client-py):           *)
(*   - the pooled request/response exchange of BaseClient                  *)
(*     (internals/base_client.py, internals/async_base_client.py) and of   *)
(*     the pooled AhnlichProtocol (ahnlich_client_py/protocol.py);         *)
(*   - the request builders and the two client facades                     *)
(*     (builders/db.py, clients/db.py, ahnlich_client_py/client.py);       *)
(*   - the message framer (internals/protocol.py), also against a peer     *)
(*     that closes its end;                                                *)
(*   - the decoding of a response (internals/db_response.py);              *)
(*   - the tagged unions of the schema and the codec of the envelopes      *)
(*     (internals/db_query.py, internals/db_response.py);                  *)
(*   - the blocking and the asynchronous protocol side by side             *)
(*     (internals/protocol.py);                                            *)
(*   - failing exchanges, the liveness check of the pool and the close of  *)
(*     the pool (internals/pool_wrapper.py, internals/base_client.py);     *)
(*   - the single-shot operations of the clients that keep one builder,    *)
(*     under concurrent callers (ahnlich_client_py/client.py, client.py);  *)
(*   - cleanup and its callers (internals/base_client.py).                 *)
(* Each part has its own specification over the module's variables; the    *)
(* variables of the other parts stay at their initial values.              *)
(***************************************************************************)
EXTENDS Integers, Sequences, FiniteSets, TLC

(***************************************************************************)
(* Bounds of the model.                                                    *)
(***************************************************************************)
\* concurrent callers of process_request on one client
NumThreads == 2
\* max_pool_size ranges over 1..MaxPoolSize
MaxPoolSize == 2

\* requests pending in all builders together
MaxPending == 3
\* the largest payload is this much longer than one underlying read may be
LargeExtra == 1
\* the transport delivers any number of bytes up to FineChunk, or all it was asked
FineChunk == 8
\* zero-byte reads counted before the count stops growing
MaxEofReads == 2
\* outcomes in a response that is decoded
MaxOutcomes == 2
\* requests and responses of ended exchanges left on one connection
MaxBacklog == 2
\* requests in a ServerQuery that goes through the codec
MaxQueries == 2

Threads == 1..NumThreads
\* connection slots: one more than the largest ceiling, so that a pool that
\* ignored its ceiling would be seen to exceed it
Conns == 1..(MaxPoolSize + 1)

VARIABLES
    \* ---- exchange and pool ----
    max_pool_size,  \* AhnlichPoolSettings.max_pool_size
    pool_closed,    \* the connection pool has been closed
    conn_state,     \* connection -> "absent" | "idle" | "leased"
    holder,         \* connection -> the thread it is leased to, or 0
    pc,             \* thread -> its position in process_request
    conn,           \* thread -> the connection it has checked out, or 0
    sent_on,        \* thread -> the connection its request was written on, or 0
    recv_on,        \* thread -> the connection its response was read from, or 0
    response,       \* thread -> the thread whose request the response it read answers, or 0
    wire_out,       \* connection -> requests written and not yet answered (by caller)
    wire_in,        \* connection -> responses written by the server and not yet read
    inflight,       \* connection -> exchanges whose request is written and whose
                    \*               response is not yet read (history)
    \* ---- builders and facades ----
    facade,         \* "base": clients/db.py AhnlichDBClient(BaseClient);
                    \* "shared": ahnlich_client_py/client.py AhnlichDBClient;
                    \* "legacy": client.py AhnlichDBClient (self.builder too)
    created,        \* the builders handed out by pipeline()
    queries,        \* builder -> its pending list (self.queries)
    appended,       \* builder -> the requests its caller has appended since the
                    \*            builder was last drained (history)
    drained,        \* builder -> to_server_query has consumed it before (history)
    tracing_id,     \* builder -> self.tracing_id
    tracing_ids,    \* the tracing ids the callers pass (fixed from the start)
    call,           \* the last finished builder or facade call and its outcome
    \* ---- framing and receive ----
    impl,           \* "blocking": AhnlichMessageProtocol.receive over BufReader;
                    \* "async": async_receive over AsyncBufReader;
                    \* "pooled": AhnlichProtocol.receive (ahnlich_client_py/protocol.py)
    version,        \* the protocol version <<major, minor, patch>>
    payload,        \* the encoded envelope (bincode_serialize of the message)
    peer,           \* the 8 bytes the peer's frame begins with: the magic
                    \* token, or another token
    frame,          \* the bytes serialize_query returned
    stream,         \* the bytes sent to the client and not yet read by it
    stage,          \* the position of receive
    size_to_read,   \* BufReader.recv: bytes still missing
    size,           \* the size asked of the next underlying read
    buffer,         \* BufReader.recv: bytes read so far
    recv_error,     \* the exception receive raised, or "none"
    bytes_read,     \* bytes taken from the connection so far (history)
    decoder_input,  \* the bytes handed to deserialize_server_response
    peer_closed,    \* the peer has closed its end: once the stream is drained,
                    \* a read returns zero bytes
    eof_reads,      \* reads that returned zero bytes (history, capped)
    \* ---- decoding of the response ----
    envelope,       \* the outcomes the server encoded
    trailing,       \* the bytes the server put behind the encoded envelope
    decoded,        \* what deserialize_server_response returned or raised
    \* ---- failures and the liveness check ----
    platform,       \* platform.system().lower(): "windows" or another
    peer_open,      \* connection -> its peer has not closed
    residue,        \* connection -> bytes of a partly read response frame are
                    \*               left on it
    conn_failure,   \* connection -> the failure of an exchange that used it
                    \*               while sending or receiving, or "none" (history)
    failure,        \* thread -> the failure its call ended in, or "none"
    leased_in_call, \* thread -> its call checked a connection out (history)
    check,          \* the liveness check the pool has just made and its result
    attempts,       \* thread -> the connections its call has checked out and
                    \*           the times it has written the request (history)
    \* ---- the blocking and the asynchronous protocol side by side ----
    written,        \* the bytes send and async_send wrote
    outcome,        \* how receive and async_receive ended on the stream
    stalled,        \* the peer has stopped sending without closing
    \* ---- the codec of the envelopes ----
    server_query,   \* a ServerQuery
    codec,          \* the last round trip through bincode_serialize and
                    \* bincode_deserialize
    \* ---- single-shot operations of concurrent callers on one shared builder ----
    step,           \* thread -> its position in the single-shot operation
    request_of,     \* thread -> the request of its operation
    local_queries,  \* thread -> the local `queries` of its to_server_query
    handed_to,      \* thread -> the batch it handed to process_request
    raised_with,    \* thread -> the exception its operation raised, or "none"
    \* ---- the calls of cleanup ----
    cleanup_calls,  \* the calls of cleanup made so far
    cleanup_via,    \* how the last one was made: "explicit", "exit" or "del"
    close_error,    \* what connection_pool.close() raised inside the last one
    cleanup_error   \* what the last one raised to its caller

exchange_vars == <<max_pool_size, pool_closed, conn_state, holder, pc, conn,
                   sent_on, recv_on, response, wire_out, wire_in, inflight>>

builder_vars == <<facade, created, queries, appended, drained, tracing_id,
                  tracing_ids, call>>

frame_vars == <<impl, version, payload, peer, frame, stream, stage, size_to_read,
                size, buffer, recv_error, bytes_read, decoder_input,
                peer_closed, eof_reads>>

decode_vars == <<envelope, trailing, decoded>>

life_vars == <<platform, peer_open, residue, conn_failure, failure,
               leased_in_call, check, attempts>>

models_vars == <<written, outcome, stalled>>

codec_vars == <<server_query, codec>>

shared_vars == <<step, request_of, local_queries, handed_to, raised_with>>

cleanup_vars == <<cleanup_calls, cleanup_via, close_error, cleanup_error>>

non_exchange_vars == <<builder_vars, frame_vars, decode_vars, life_vars, models_vars,
                       codec_vars,
          shared_vars, cleanup_vars>>
non_builder_vars == <<exchange_vars, frame_vars, decode_vars, life_vars, models_vars,
                      codec_vars,
          shared_vars, cleanup_vars>>
non_frame_vars == <<exchange_vars, builder_vars, decode_vars, life_vars, models_vars,
                    codec_vars,
          shared_vars, cleanup_vars>>

non_shared_vars == <<exchange_vars, builder_vars, frame_vars, decode_vars, life_vars,
                     models_vars, codec_vars, cleanup_vars>>

vars == <<exchange_vars, builder_vars, frame_vars, decode_vars, life_vars,
          models_vars, codec_vars,
          shared_vars, cleanup_vars>>

(***************************************************************************)
(* The connection pool, as the clients configure and use it.               *)
(***************************************************************************)
Leased == {c \in Conns : conn_state[c] = "leased"}
Existing == {c \in Conns : conn_state[c] # "absent"}

\* a ceiling one too large
TotalMaxSizeOffByOne == max_pool_size + 1

\* create_connection_pool: max_size = total_max_size = settings.max_pool_size
TotalMaxSize == max_pool_size

\* a pool that goes on leasing connections after it was closed
AcquireOnClosedPool(t, c) ==
    /\ \/ conn_state[c] = "idle"
       \/ /\ conn_state[c] = "absent"
          /\ Cardinality(Existing) < TotalMaxSize
    /\ conn_state' = [conn_state EXCEPT ![c] = "leased"]
    /\ holder' = [holder EXCEPT ![c] = t]
    /\ conn' = [conn EXCEPT ![t] = c]

\* connection_pool.connection(...).__enter__: an idle connection is leased, or a
\* new one is created while the pool is below its ceiling; otherwise the caller
\* waits (the action is not enabled)
Acquire(t, c) ==
    /\ ~pool_closed
    /\ \/ conn_state[c] = "idle"
       \/ /\ conn_state[c] = "absent"
          /\ Cardinality(Existing) < TotalMaxSize
    /\ conn_state' = [conn_state EXCEPT ![c] = "leased"]
    /\ holder' = [holder EXCEPT ![c] = t]
    /\ conn' = [conn EXCEPT ![t] = c]

\* a with block that forgets its connection without handing it back
ReleaseLeaking(t) ==
    /\ conn' = [conn EXCEPT ![t] = 0]
    /\ UNCHANGED <<conn_state, holder>>

\* connection_pool.connection(...).__exit__: the connection goes back to the pool
Release(t) ==
    /\ conn_state' = [conn_state EXCEPT ![conn[t]] = "idle"]
    /\ holder' = [holder EXCEPT ![conn[t]] = 0]
    /\ conn' = [conn EXCEPT ![t] = 0]

(***************************************************************************)
(* The peer: a server that answers the requests of a connection in order.  *)
(***************************************************************************)
ServerRespond(c) ==
    /\ wire_out[c] # <<>>
    /\ wire_out' = [wire_out EXCEPT ![c] = Tail(@)]
    /\ wire_in' = [wire_in EXCEPT ![c] = Append(@, Head(wire_out[c]))]
    /\ UNCHANGED <<max_pool_size, pool_closed, conn_state, holder, pc, conn,
                   sent_on, recv_on, response, inflight>>
    /\ UNCHANGED non_exchange_vars

(***************************************************************************)
(* BaseClient.process_request (blocking and asynchronous): one checkout    *)
(* spans the send and the receive.                                         *)
(***************************************************************************)
\* a caller enters process_request
Call(t) ==
    /\ pc[t] = "idle"
    /\ pc' = [pc EXCEPT ![t] = "checkout"]
    /\ sent_on' = [sent_on EXCEPT ![t] = 0]
    /\ recv_on' = [recv_on EXCEPT ![t] = 0]
    /\ response' = [response EXCEPT ![t] = 0]
    /\ UNCHANGED <<max_pool_size, pool_closed, conn_state, holder, conn,
                   wire_out, wire_in, inflight>>
    /\ UNCHANGED non_exchange_vars

\* with self.connected_socket as conn
Checkout(t) ==
    /\ pc[t] = "checkout"
    /\ \E c \in Conns : Acquire(t, c)
    /\ pc' = [pc EXCEPT ![t] = "send"]
    /\ UNCHANGED <<max_pool_size, pool_closed, sent_on, recv_on, response,
                   wire_out, wire_in, inflight>>
    /\ UNCHANGED non_exchange_vars

\* checkout on a closed pool raises ConnectionPoolClosedError
CheckoutClosed(t) ==
    /\ pc[t] = "checkout"
    /\ pool_closed
    /\ pc' = [pc EXCEPT ![t] = "failed"]
    /\ UNCHANGED <<max_pool_size, pool_closed, conn_state, holder, conn,
                   sent_on, recv_on, response, wire_out, wire_in, inflight>>
    /\ UNCHANGED non_exchange_vars

\* message_protocol.send(conn, message): conn.sendall(serialized_bin)
Send(t) ==
    /\ pc[t] = "send"
    /\ wire_out' = [wire_out EXCEPT ![conn[t]] = Append(@, t)]
    /\ sent_on' = [sent_on EXCEPT ![t] = conn[t]]
    /\ inflight' = [inflight EXCEPT ![conn[t]] = @ \cup {t}]
    /\ pc' = [pc EXCEPT ![t] = "receive"]
    /\ UNCHANGED <<max_pool_size, pool_closed, conn_state, holder, conn,
                   recv_on, response, wire_in>>
    /\ UNCHANGED non_exchange_vars

\* message_protocol.receive(conn, response_class): the next response on the
\* connection is read whole
Receive(t) ==
    /\ pc[t] = "receive"
    /\ wire_in[conn[t]] # <<>>
    /\ response' = [response EXCEPT ![t] = Head(wire_in[conn[t]])]
    /\ wire_in' = [wire_in EXCEPT ![conn[t]] = Tail(@)]
    /\ recv_on' = [recv_on EXCEPT ![t] = conn[t]]
    /\ inflight' = [inflight EXCEPT ![conn[t]] = @ \ {Head(wire_in[conn[t]])}]
    /\ pc' = [pc EXCEPT ![t] = "release"]
    /\ UNCHANGED <<max_pool_size, pool_closed, conn_state, holder, conn,
                   sent_on, wire_out>>
    /\ UNCHANGED non_exchange_vars

\* leaving the with block: the connection is returned, the response is returned
Return(t) ==
    /\ pc[t] = "release"
    /\ Release(t)
    /\ pc' = [pc EXCEPT ![t] = "done"]
    /\ UNCHANGED <<max_pool_size, pool_closed, sent_on, recv_on, response,
                   wire_out, wire_in, inflight>>
    /\ UNCHANGED non_exchange_vars

\* the caller goes on to its next call
Again(t) ==
    /\ pc[t] \in {"done", "failed"}
    /\ pc' = [pc EXCEPT ![t] = "idle"]
    /\ UNCHANGED <<max_pool_size, pool_closed, conn_state, holder, conn,
                   sent_on, recv_on, response, wire_out, wire_in, inflight>>
    /\ UNCHANGED non_exchange_vars

\* cleanup: connection_pool.close(), ConnectionPoolClosedError swallowed.
\* Closing waits for leased connections to come back and disposes of them all.
Cleanup ==
    /\ Leased = {}
    /\ \A t \in Threads : pc[t] \in {"idle", "done", "failed"}
    /\ pool_closed' = TRUE
    /\ conn_state' = [c \in Conns |-> "absent"]
    /\ wire_out' = [c \in Conns |-> <<>>]
    /\ wire_in' = [c \in Conns |-> <<>>]
    /\ inflight' = [c \in Conns |-> {}]
    /\ UNCHANGED <<max_pool_size, holder, pc, conn, sent_on, recv_on, response>>
    /\ UNCHANGED non_exchange_vars

\* cleanup (or __exit__) while callers are at their checkout: the pool closes
\* once the leased connections are back, before those callers got one
CleanupWhileWaiting ==
    /\ Leased = {}
    /\ \E t \in Threads : pc[t] = "checkout"
    /\ pool_closed' = TRUE
    /\ conn_state' = [c \in Conns |-> "absent"]
    /\ wire_out' = [c \in Conns |-> <<>>]
    /\ wire_in' = [c \in Conns |-> <<>>]
    /\ inflight' = [c \in Conns |-> {}]
    /\ UNCHANGED <<max_pool_size, holder, pc, conn, sent_on, recv_on, response>>
    /\ UNCHANGED non_exchange_vars

\* the bound on the calls of cleanup that are counted
MaxCleanups == 3

\* ConnectionPool.close() of generic_connection_pool, which is not part of the
\* repository: an open pool is closed; on a closed pool the call raises
\* ConnectionPoolClosedError or returns, and the pool stays closed
ConnectionPoolClose(closed) ==
    IF closed
    THEN {[error |-> "ConnectionPoolClosedError", closed |-> TRUE],
          [error |-> "none", closed |-> TRUE]}
    ELSE {[error |-> "none", closed |-> TRUE]}

\* a cleanup without its try/except
cleanup_propagating(closing) == closing

\* cleanup: try: self.connection_pool.close()
\*          except ConnectionPoolClosedError: pass
cleanup(closing) ==
    [closing EXCEPT !.error =
        IF @ = "ConnectionPoolClosedError" THEN "none" ELSE @]

\* how cleanup gets called: by the caller, by __exit__ / __aexit__, by __del__
CleanupCallers == {"explicit", "exit", "del"}

\* one call of cleanup, made while no exchange is under way
CleanupBy(via) ==
    /\ Leased = {}
    /\ \A t \in Threads : pc[t] \in {"idle", "done", "failed"}
    /\ cleanup_calls < MaxCleanups
    /\ \E closing \in ConnectionPoolClose(pool_closed) :
          /\ pool_closed' = cleanup(closing).closed
          /\ close_error' = closing.error
          /\ cleanup_error' = cleanup(closing).error
    /\ cleanup_calls' = cleanup_calls + 1
    /\ cleanup_via' = via
    /\ conn_state' = [c \in Conns |-> "absent"]
    /\ wire_out' = [c \in Conns |-> <<>>]
    /\ wire_in' = [c \in Conns |-> <<>>]
    /\ inflight' = [c \in Conns |-> {}]
    /\ UNCHANGED <<max_pool_size, holder, pc, conn, sent_on, recv_on, response>>
    /\ UNCHANGED <<builder_vars, frame_vars, decode_vars, life_vars, models_vars,
                   codec_vars, shared_vars>>

\* cleanup was never called
CleanupRest ==
    /\ cleanup_calls = 0
    /\ cleanup_via = "none"
    /\ close_error = "none"
    /\ cleanup_error = "none"

ExchangeInit ==
    /\ pool_closed = FALSE
    /\ conn_state = [c \in Conns |-> "absent"]
    /\ holder = [c \in Conns |-> 0]
    /\ pc = [t \in Threads |-> "idle"]
    /\ conn = [t \in Threads |-> 0]
    /\ sent_on = [t \in Threads |-> 0]
    /\ recv_on = [t \in Threads |-> 0]
    /\ response = [t \in Threads |-> 0]
    /\ wire_out = [c \in Conns |-> <<>>]
    /\ wire_in = [c \in Conns |-> <<>>]
    /\ inflight = [c \in Conns |-> {}]

(***************************************************************************)
(* AhnlichProtocol.process_request (ahnlich_client_py/protocol.py): send   *)
(* and receive each check a connection out of the pool on their own.       *)
(***************************************************************************)
\* process_request is entered; send serializes the message
PCall(t) ==
    /\ pc[t] = "idle"
    /\ pc' = [pc EXCEPT ![t] = "send_checkout"]
    /\ sent_on' = [sent_on EXCEPT ![t] = 0]
    /\ recv_on' = [recv_on EXCEPT ![t] = 0]
    /\ response' = [response EXCEPT ![t] = 0]
    /\ UNCHANGED <<max_pool_size, pool_closed, conn_state, holder, conn,
                   wire_out, wire_in, inflight>>
    /\ UNCHANGED non_exchange_vars

\* send: with self.connect_generator as conn
PSendCheckout(t) ==
    /\ pc[t] = "send_checkout"
    /\ \E c \in Conns : Acquire(t, c)
    /\ pc' = [pc EXCEPT ![t] = "send_write"]
    /\ UNCHANGED <<max_pool_size, pool_closed, sent_on, recv_on, response,
                   wire_out, wire_in, inflight>>
    /\ UNCHANGED non_exchange_vars

\* send: conn.sendall(serialized_bin), then the with block ends
PSendWrite(t) ==
    /\ pc[t] = "send_write"
    /\ wire_out' = [wire_out EXCEPT ![conn[t]] = Append(@, t)]
    /\ sent_on' = [sent_on EXCEPT ![t] = conn[t]]
    /\ inflight' = [inflight EXCEPT ![conn[t]] = @ \cup {t}]
    /\ Release(t)
    /\ pc' = [pc EXCEPT ![t] = "recv_checkout"]
    /\ UNCHANGED <<max_pool_size, pool_closed, recv_on, response, wire_in>>
    /\ UNCHANGED non_exchange_vars

\* receive: with self.connect_generator as conn
PRecvCheckout(t) ==
    /\ pc[t] = "recv_checkout"
    /\ \E c \in Conns : Acquire(t, c)
    /\ pc' = [pc EXCEPT ![t] = "recv_read"]
    /\ UNCHANGED <<max_pool_size, pool_closed, sent_on, recv_on, response,
                   wire_out, wire_in, inflight>>
    /\ UNCHANGED non_exchange_vars

\* receive: the next response on the connection is read, then the with block
\* ends and the response is returned
PRecvRead(t) ==
    /\ pc[t] = "recv_read"
    /\ wire_in[conn[t]] # <<>>
    /\ response' = [response EXCEPT ![t] = Head(wire_in[conn[t]])]
    /\ wire_in' = [wire_in EXCEPT ![conn[t]] = Tail(@)]
    /\ recv_on' = [recv_on EXCEPT ![t] = conn[t]]
    /\ inflight' = [inflight EXCEPT ![conn[t]] = @ \ {Head(wire_in[conn[t]])}]
    /\ Release(t)
    /\ pc' = [pc EXCEPT ![t] = "done"]
    /\ UNCHANGED <<max_pool_size, pool_closed, sent_on, wire_out>>
    /\ UNCHANGED non_exchange_vars

\* a receive that raises on the empty header and leaves the pool open
PRecvReadEmptyKeepingPool(t) ==
    /\ pc[t] = "recv_read"
    /\ wire_in[conn[t]] = <<>>
    /\ ~peer_open[conn[t]]
    /\ failure' = [failure EXCEPT ![t] = "socket connection broken"]
    /\ conn_state' = [conn_state EXCEPT ![conn[t]] = "absent"]
    /\ holder' = [holder EXCEPT ![conn[t]] = 0]
    /\ conn' = [conn EXCEPT ![t] = 0]
    /\ pc' = [pc EXCEPT ![t] = "failed"]
    /\ UNCHANGED <<max_pool_size, pool_closed, sent_on, recv_on, response, wire_out,
                   wire_in, inflight>>
    /\ UNCHANGED <<platform, peer_open, residue, conn_failure, leased_in_call, check,
                   attempts>>
    /\ UNCHANGED <<builder_vars, frame_vars, decode_vars, models_vars, codec_vars,
                   shared_vars, cleanup_vars>>

\* receive: conn.recv(8) returns b"" (the peer has closed and nothing is left to
\* read): self.connection_pool.close(), then
\* raise AhnlichProtocolException("socket connection broken"); the with block
\* ends on a closed pool, which keeps no connection
PRecvReadEmpty(t) ==
    /\ pc[t] = "recv_read"
    /\ wire_in[conn[t]] = <<>>
    /\ ~peer_open[conn[t]]
    /\ pool_closed' = TRUE
    /\ failure' = [failure EXCEPT ![t] = "socket connection broken"]
    /\ conn_state' = [c \in Conns |->
                         IF conn_state[c] = "leased" /\ c # conn[t]
                         THEN "leased" ELSE "absent"]
    /\ holder' = [holder EXCEPT ![conn[t]] = 0]
    /\ conn' = [conn EXCEPT ![t] = 0]
    /\ pc' = [pc EXCEPT ![t] = "failed"]
    /\ UNCHANGED <<max_pool_size, sent_on, recv_on, response, wire_out, wire_in,
                   inflight>>
    /\ UNCHANGED <<platform, peer_open, residue, conn_failure, leased_in_call, check,
                   attempts>>
    /\ UNCHANGED <<builder_vars, frame_vars, decode_vars, models_vars, codec_vars,
                   shared_vars, cleanup_vars>>

\* either checkout on a closed pool raises ConnectionPoolClosedError
PCheckoutClosed(t) ==
    /\ pc[t] \in {"send_checkout", "recv_checkout"}
    /\ pool_closed
    /\ pc' = [pc EXCEPT ![t] = "failed"]
    /\ UNCHANGED <<max_pool_size, pool_closed, conn_state, holder, conn,
                   sent_on, recv_on, response, wire_out, wire_in, inflight>>
    /\ UNCHANGED non_exchange_vars

(***************************************************************************)
(* Requests, and the server's answer to a batch.                           *)
(***************************************************************************)
Kinds == {"Ping", "CreateStore", "GetSimN"}
\* the integer argument of create_store (dimension) and get_sim_n (closest_n)
ArgValues == {-1, 0, 1}
NoArg == 0

Query(kind, arg) == [kind |-> kind, arg |-> arg]

\* a server that answers every request of the batch, in order: outcome i is
\* Result__Ok or Result__Err for request i
ConformingReply(message, errs) ==
    [i \in 1..Len(message) |-> [ok |-> i \notin errs, of |-> message[i]]]

\* (at most one request of a batch is answered with Result__Err)
ConformingReplies(message) ==
    {ConformingReply(message, errs) :
        errs \in {{}} \cup {{i} : i \in 1..Len(message)}}

\* a server that answers with one outcome too few or one too many
NonConformingReplies(message) ==
    LET r == ConformingReply(message, {})
        extra == [ok |-> TRUE, of |-> Query("Ping", NoArg)] IN
    {Append(r, extra)} \cup (IF r = <<>> THEN {} ELSE {SubSeq(r, 1, Len(r) - 1)})

(***************************************************************************)
(* NonZeroSizeInteger and the request builder (builders/db.py).            *)
(***************************************************************************)
\* rejects negative numbers only
NonZeroSizeIntegerAcceptsZero(num) ==
    IF num < 0 THEN [raised |-> TRUE, value |-> 0]
               ELSE [raised |-> FALSE, value |-> num]

\* NonZeroSizeInteger.__init__: raises when num <= 0
NonZeroSizeInteger(num) ==
    IF num <= 0 THEN [raised |-> TRUE, value |-> 0]
                ELSE [raised |-> FALSE, value |-> num]

\* a create_store that appends its request before the dimension is validated
create_store_appending_first(qs, dimension) ==
    LET non_zero == NonZeroSizeInteger(dimension) IN
    [error |-> IF non_zero.raised THEN "NonZeroSizeInteger" ELSE "none",
     queries |-> Append(qs, Query("CreateStore", dimension))]

\* create_store: validates the dimension, then appends Query__CreateStore
create_store(qs, dimension) ==
    LET non_zero == NonZeroSizeInteger(dimension) IN
    IF non_zero.raised
    THEN [error |-> "NonZeroSizeInteger", queries |-> qs]
    ELSE [error |-> "none",
          queries |-> Append(qs, Query("CreateStore", non_zero.value))]

\* a get_sim_n that starts the pending list anew with its request
get_sim_n_replacing_pending(qs, closest_n) ==
    LET nonzero == NonZeroSizeInteger(closest_n) IN
    IF nonzero.raised
    THEN [error |-> "NonZeroSizeInteger", queries |-> qs]
    ELSE [error |-> "none",
          queries |-> <<Query("GetSimN", nonzero.value)>>]

\* get_sim_n: validates closest_n, then appends Query__GetSimN
get_sim_n(qs, closest_n) ==
    LET nonzero == NonZeroSizeInteger(closest_n) IN
    IF nonzero.raised
    THEN [error |-> "NonZeroSizeInteger", queries |-> qs]
    ELSE [error |-> "none",
          queries |-> Append(qs, Query("GetSimN", nonzero.value))]

\* puts the request in front of the pending ones
ping_prepends(qs) ==
    [error |-> "none", queries |-> <<Query("Ping", NoArg)>> \o qs]

\* ping: appends Query__Ping
ping(qs) ==
    [error |-> "none", queries |-> Append(qs, Query("Ping", NoArg))]

\* the builder method of a request kind, applied to a pending list
BuilderMethod(qs, kind, arg) ==
    CASE kind = "Ping" -> ping(qs)
      [] kind = "CreateStore" -> create_store(qs, arg)
      [] kind = "GetSimN" -> get_sim_n(qs, arg)

\* the arguments a caller may pass to the method of a kind
ArgsOf(kind) == IF kind \in {"CreateStore", "GetSimN"} THEN ArgValues ELSE {NoArg}

\* drop: self.queries.clear()
drop(qs) == <<>>

\* builds the envelope whatever the pending list holds
to_server_query_unguarded(qs) ==
    [error |-> "none", message |-> qs, queries |-> drop(qs)]

\* to_server_query: raises on an empty pending list, else copies the list into
\* the envelope and drops the builder's own
to_server_query(qs) ==
    IF qs = <<>>
    THEN [error |-> "AhnlichClientException", message |-> <<>>, queries |-> qs]
    ELSE [error |-> "none", message |-> qs, queries |-> drop(qs)]

\* a failure outcome in the response raised as an exception
process_request_raising_on_err(message, reply) ==
    IF \E i \in 1..Len(reply) : ~reply[i].ok
    THEN [error |-> "RemoteError", results |-> <<>>]
    ELSE [error |-> "none", results |-> reply]

\* process_request, seen from its caller: the decoded response is returned as
\* it came
process_request(message, reply) == [error |-> "none", results |-> reply]

\* the tracing ids a caller passes: None or a trace parent
None == "None"
TracingIds == {None, "00-trace-01"}

\* an envelope that leaves the trace id out
ServerQueryWithoutTracingId(qs, trace_id) == [queries |-> qs, trace_id |-> None]

\* db_query.ServerQuery(queries=..., trace_id=...): the envelope
ServerQuery(qs, trace_id) == [queries |-> qs, trace_id |-> trace_id]

Builders == {0, 1, 2}
\* builder 0 is the self.builder of the shared-builder client; 1 and 2 are the
\* builders pipeline() of the BaseClient client makes
TotalPending == Len(queries[0]) + Len(queries[1]) + Len(queries[2])

NoCall ==
    [op |-> "none", builder |-> 0, kind |-> "none", arg |-> NoArg,
     before |-> <<>>, error |-> "none", handed |-> FALSE, message |-> <<>>,
     conforming |-> TRUE, results |-> <<>>, expected |-> <<>>, reply |-> <<>>,
     trace_id |-> None, after_rejection |-> FALSE, client |-> "none",
     drained_before |-> FALSE]

\* the call before this one was a call on builder b that NonZeroSizeInteger
\* rejected
AfterRejection(b) ==
    /\ call.op \in {"append", "single"}
    /\ call.builder = b
    /\ call.error = "NonZeroSizeInteger"

\* the record of a call that hands `message` to process_request and gets `reply`
Handed(op, b, kind, arg, before, message, reply, expected) ==
    LET r == process_request(message, reply) IN
    [op |-> op, builder |-> b, kind |-> kind, arg |-> arg, before |-> before,
     error |-> r.error, handed |-> TRUE, message |-> message,
     conforming |-> reply \in ConformingReplies(message),
     results |-> r.results, expected |-> expected, reply |-> reply,
     trace_id |-> None, after_rejection |-> FALSE, client |-> "none",
     drained_before |-> FALSE]

\* the record of a call that raised before reaching process_request
Raised(op, b, kind, arg, before, error) ==
    [NoCall EXCEPT !.op = op, !.builder = b, !.kind = kind, !.arg = arg,
                   !.before = before, !.error = error]

\* pipeline(): clients/db.py makes a new builder; ahnlich_client_py/client.py
\* returns self.builder
Pipeline ==
    /\ \E b \in Builders \ created, tid \in tracing_ids :
          /\ IF facade = "shared" THEN b = 0 /\ tid = None
                                  ELSE b = Cardinality(created) + 1
          /\ created' = created \cup {b}
          /\ tracing_id' = [tracing_id EXCEPT ![b] = tid]
          /\ call' = [NoCall EXCEPT !.op = "pipeline", !.builder = b]
    /\ UNCHANGED <<facade, queries, appended, drained, tracing_ids>>
    /\ UNCHANGED non_builder_vars

\* a request-adding method of a builder obtained from pipeline()
BuilderCall(b, kind, arg) ==
    /\ b \in created
    /\ TotalPending < MaxPending
    /\ LET r == BuilderMethod(queries[b], kind, arg) IN
          /\ queries' = [queries EXCEPT ![b] = r.queries]
          /\ appended' = [appended EXCEPT ![b] =
                 IF r.error = "none" THEN Append(@, Query(kind, arg)) ELSE @]
          /\ call' = [NoCall EXCEPT !.op = "append", !.builder = b, !.kind = kind,
                         !.arg = arg, !.before = queries[b], !.error = r.error]
    /\ UNCHANGED <<facade, created, drained, tracing_id, tracing_ids>>
    /\ UNCHANGED non_builder_vars

\* builder.drop()
BuilderDrop(b) ==
    /\ b \in created
    /\ queries' = [queries EXCEPT ![b] = drop(@)]
    /\ appended' = [appended EXCEPT ![b] = <<>>]
    /\ call' = [NoCall EXCEPT !.op = "drop", !.builder = b, !.before = queries[b]]
    /\ UNCHANGED <<facade, created, drained, tracing_id, tracing_ids>>
    /\ UNCHANGED non_builder_vars

\* builder.exec() (clients/db.py pipeline builders) and client.exec()
\* (ahnlich_client_py/client.py): process_request(to_server_query())
BuilderExec(b) ==
    /\ b \in created
    /\ LET q == to_server_query(queries[b]) IN
          IF q.error # "none"
          THEN /\ call' = Raised("exec", b, "none", NoArg, queries[b], q.error)
               /\ UNCHANGED <<queries, appended, drained>>
          ELSE /\ \E reply \in ConformingReplies(q.message)
                                  \cup NonConformingReplies(q.message) :
                      call' = [Handed("exec", b, "none", NoArg, queries[b],
                                      q.message, reply, appended[b])
                                  EXCEPT !.trace_id =
                                             ServerQuery(q.message, tracing_id[b]).trace_id,
                                         !.after_rejection = AfterRejection(b),
                                         !.drained_before = drained[b]]
               /\ queries' = [queries EXCEPT ![b] = q.queries]
               /\ appended' = [appended EXCEPT ![b] = <<>>]
               /\ drained' = [drained EXCEPT ![b] = TRUE]
    /\ UNCHANGED <<facade, created, tracing_id, tracing_ids>>
    /\ UNCHANGED non_builder_vars

\* a single-shot operation that works on the builder pipeline() handed out
\* first, as a client that kept one builder would
ClientSingleShotOnPipelineBuilder(kind, arg) ==
    /\ facade = "base"
    /\ LET r == BuilderMethod(queries[1], kind, arg)
           q == to_server_query(r.queries) IN
          IF r.error # "none"
          THEN /\ call' = Raised("single", 0, kind, arg, <<>>, r.error)
               /\ UNCHANGED queries
          ELSE IF q.error # "none"
          THEN /\ call' = Raised("single", 0, kind, arg, <<>>, q.error)
               /\ UNCHANGED queries
          ELSE /\ \E reply \in ConformingReplies(q.message)
                                  \cup NonConformingReplies(q.message),
                     tid \in tracing_ids :
                     call' = [Handed("single", 0, kind, arg, <<>>, q.message, reply,
                                     <<Query(kind, arg)>>)
                                 EXCEPT !.trace_id = ServerQuery(q.message, tid).trace_id]
               /\ queries' = [queries EXCEPT ![1] = q.queries]
    /\ UNCHANGED <<facade, created, appended, drained, tracing_id, tracing_ids>>
    /\ UNCHANGED non_builder_vars

\* a single-shot operation of clients/db.py: a builder of its own, the builder
\* method, process_request(builder.to_server_query())
ClientSingleShot(kind, arg) ==
    /\ facade = "base"
    /\ LET r == BuilderMethod(<<>>, kind, arg)
           q == to_server_query(r.queries) IN
          IF r.error # "none"
          THEN call' = Raised("single", 0, kind, arg, <<>>, r.error)
          ELSE IF q.error # "none"
          THEN call' = Raised("single", 0, kind, arg, <<>>, q.error)
          ELSE \E reply \in ConformingReplies(q.message)
                               \cup NonConformingReplies(q.message),
                  tid \in tracing_ids :
                  call' = [Handed("single", 0, kind, arg, <<>>, q.message, reply,
                                  <<Query(kind, arg)>>)
                              EXCEPT !.trace_id = ServerQuery(q.message, tid).trace_id]
    /\ UNCHANGED <<facade, created, queries, appended, drained, tracing_id, tracing_ids>>
    /\ UNCHANGED non_builder_vars

\* a single-shot operation of ahnlich_client_py/client.py and of client.py: the
\* builder method on self.builder, then
\* process_request(self.builder.to_server_query())
SharedClientSingleShot(kind, arg) ==
    /\ facade \in {"shared", "legacy"}
    /\ LET r == BuilderMethod(queries[0], kind, arg)
           q == to_server_query(r.queries) IN
          IF r.error # "none"
          THEN /\ call' = Raised("single", 0, kind, arg, queries[0], r.error)
               /\ UNCHANGED <<queries, appended, drained>>
          ELSE IF q.error # "none"
          THEN /\ call' = Raised("single", 0, kind, arg, queries[0], q.error)
               /\ queries' = [queries EXCEPT ![0] = r.queries]
               /\ appended' = [appended EXCEPT ![0] = Append(@, Query(kind, arg))]
               /\ UNCHANGED drained
          ELSE /\ \E reply \in ConformingReplies(q.message)
                                  \cup NonConformingReplies(q.message) :
                      call' = [Handed("single", 0, kind, arg, queries[0],
                                      q.message, reply, <<Query(kind, arg)>>)
                                  EXCEPT !.trace_id =
                                             ServerQuery(q.message, tracing_id[0]).trace_id,
                                         !.after_rejection = AfterRejection(0)]
               /\ queries' = [queries EXCEPT ![0] = q.queries]
               /\ appended' = [appended EXCEPT ![0] = <<>>]
               /\ drained' = [drained EXCEPT ![0] = TRUE]
    /\ UNCHANGED <<facade, created, tracing_id, tracing_ids>>
    /\ UNCHANGED non_builder_vars

\* a Python call of a method: TypeError unless every parameter without a
\* default is among the arguments given
BindArguments(required, given) ==
    IF required \subseteq given THEN "none" ELSE "TypeError"

\* drop_non_linear_algorithm_index of the builders: store_name and
\* non_linear_indices have no default; appends
\* Query__DropNonLinearAlgorithmIndex
drop_non_linear_algorithm_index(qs, given) ==
    LET bound == BindArguments({"store_name", "non_linear_indices"}, given) IN
    IF bound # "none"
    THEN [error |-> bound, queries |-> qs]
    ELSE [error |-> "none",
          queries |-> Append(qs, Query("DropNonLinearAlgorithmIndex", NoArg))]

\* the clients that have the facade operation drop_non_linear_algorithm_index
FacadeClients == {"db", "ai", "non_blocking_db"}

\* the arguments the facade operation passes to the builder method:
\* clients/non_blocking/db.py passes its three arguments; clients/db.py and
\* clients/ai.py write `builder.drop_non_linear_algorithm_index()(...)`, which
\* calls the method with no argument
ArgumentsGivenBy(client) ==
    IF client = "non_blocking_db"
    THEN {"store_name", "non_linear_indices", "error_if_not_exists"}
    ELSE {}

\* the facade operation drop_non_linear_algorithm_index, called with valid
\* arguments: a builder of its own, the builder method,
\* process_request(builder.to_server_query())
ClientDropNonLinearAlgorithmIndex(client) ==
    /\ facade = "base"
    /\ LET r == drop_non_linear_algorithm_index(<<>>, ArgumentsGivenBy(client))
           q == to_server_query(r.queries)
           kind == "DropNonLinearAlgorithmIndex" IN
          IF r.error # "none"
          THEN call' = [Raised("single", 0, kind, NoArg, <<>>, r.error)
                           EXCEPT !.client = client]
          ELSE IF q.error # "none"
          THEN call' = [Raised("single", 0, kind, NoArg, <<>>, q.error)
                           EXCEPT !.client = client]
          ELSE \E reply \in ConformingReplies(q.message)
                               \cup NonConformingReplies(q.message) :
                  call' = [Handed("single", 0, kind, NoArg, <<>>, q.message, reply,
                                  <<Query(kind, NoArg)>>)
                              EXCEPT !.client = client]
    /\ UNCHANGED <<facade, created, queries, appended, drained, tracing_id, tracing_ids>>
    /\ UNCHANGED non_builder_vars

\* AhnlichRequestBuilder.get_predicate of client.py: appends Query__GetPred
get_predicate(qs) ==
    [error |-> "none", queries |-> Append(qs, Query("GetPred", NoArg))]

\* AhnlichDBClient.get_predicate of client.py: the builder method on
\* self.builder, and nothing after it
LegacyGetPredicate ==
    /\ facade = "legacy"
    /\ TotalPending < MaxPending
    /\ LET r == get_predicate(queries[0]) IN
          /\ queries' = [queries EXCEPT ![0] = r.queries]
          /\ appended' = [appended EXCEPT ![0] = Append(@, Query("GetPred", NoArg))]
          /\ call' = [NoCall EXCEPT !.op = "single", !.kind = "GetPred",
                                    !.before = queries[0], !.error = r.error]
    /\ UNCHANGED <<facade, created, drained, tracing_id, tracing_ids>>
    /\ UNCHANGED non_builder_vars

\* the builders before any call
BuildersUnused ==
    /\ created = {}
    /\ queries = [b \in Builders |-> <<>>]
    /\ appended = [b \in Builders |-> <<>>]
    /\ drained = [b \in Builders |-> FALSE]
    /\ tracing_id = [b \in Builders |-> None]
    /\ call = NoCall

\* the builders before any call, of callers that pass no tracing id
BuilderRest ==
    /\ tracing_ids = {None}
    /\ BuildersUnused

(***************************************************************************)
(* The message framer (internals/protocol.py) and the receive of the       *)
(* pooled AhnlichProtocol. A byte is a number in 0..255.                   *)
(***************************************************************************)
\* config.HEADER = b"AHNLICH;"
HEADER == <<65, 72, 78, 76, 73, 67, 72, 59>>
\* BufReader(conn, max_size_to_read=1024)
max_size_to_read == 1024

Min(a, b) == IF a <= b THEN a ELSE b

\* n >> (8 * i)
RECURSIVE ShiftRightBytes(_, _)
ShiftRightBytes(n, i) == IF i = 0 THEN n ELSE ShiftRightBytes(n \div 256, i - 1)

\* int.to_bytes(length, "big")
ToBytesBig(n, length) ==
    [i \in 1..length |-> ShiftRightBytes(n, length - i) % 256]

\* int.to_bytes(length, "little")
ToBytesLittle(n, length) ==
    [i \in 1..length |-> ShiftRightBytes(n, i - 1) % 256]

\* the model's integers end below 2^31: a decoded length of 2^24 or more,
\* which no stream of the model can satisfy, is held as 2^24
LengthCap == 256 * 256 * 256

\* int.from_bytes(b, byteorder="little")
RECURSIVE FromBytesLittle(_)
FromBytesLittle(b) ==
    IF b = <<>> THEN 0
    ELSE LET rest == FromBytesLittle(Tail(b)) IN
         IF rest >= 256 * 256 THEN LengthCap ELSE Head(b) + 256 * rest

\* Version.bincode_serialize: major as u8, minor and patch as u16, little-endian
VersionBincodeSerialize(v) ==
    <<v[1] % 256>> \o ToBytesLittle(v[2], 2) \o ToBytesLittle(v[3], 2)

\* the length written big-endian
serialize_query_big_endian(v, resp) ==
    HEADER \o VersionBincodeSerialize(v) \o ToBytesBig(Len(resp), 8) \o resp

\* serialize_query: config.HEADER + version + response_length + response (resp)
serialize_query(v, resp) ==
    HEADER \o VersionBincodeSerialize(v) \o ToBytesLittle(Len(resp), 8) \o resp

\* the versions a client may be built with
Versions == {<<0, 1, 0>>, <<1, 258, 515>>}

\* a payload longer than one underlying read, its bytes differing by position
LargePayload == [i \in 1..(max_size_to_read + LargeExtra) |-> (7 * i + 3) % 256]

\* the encoded envelopes: empty, one byte, two bytes, and the large one
Payloads == {<<>>, <<0>>, <<255>>, <<1, 2>>, LargePayload}

\* 8-byte tokens that are not the magic token
BadTokens ==
    {[HEADER EXCEPT ![1] = 66], [HEADER EXCEPT ![8] = 58], [i \in 1..8 |-> 0]}

Peers == {HEADER} \cup BadTokens

\* the versions a peer may run: those of the clients, an older and a newer
\* major version, and the largest values the 5 bytes hold
PeerVersions == Versions \cup {<<0, 0, 9>>, <<2, 0, 0>>, <<255, 65535, 65535>>}

\* the first 13 bytes of a peer that sends the magic token and its own version
PeersWithVersion == {HEADER \o VersionBincodeSerialize(v) : v \in PeerVersions}

\* the bytes the peer sends: a frame as serialize_query builds it, behind the
\* peer's own first bytes (its 8-byte token, or its token and its version)
PeerStream(p, f) == p \o SubSeq(f, Len(p) + 1, Len(f))

Fields == {"header", "version", "length", "data"}

\* the sizes an underlying read of at most n bytes may return
Chunks(n) == {k \in 1..n : k <= FineChunk \/ k = n}

\* the lengths at which the peer may cut what it sends: inside and at the
\* ends of the first fields, and just before and at the end of the frame
ClosePoints(n) ==
    {k \in 0..n : k \in {0, 3, 8, 10, 13, 17, 21} \/ k >= n - 1}

\* taking the first k bytes from the connection
Take(k) ==
    /\ stream' = SubSeq(stream, k + 1, Len(stream))
    /\ bytes_read' = bytes_read + k

\* any 8 bytes pass for the magic token
HeaderAcceptedAlways(header) == TRUE

\* receive: header != config.HEADER raises "Fake server"
HeaderAccepted(header) == header = HEADER

\* BufReader.recv(n) begins: buffer = b"", size = min(size_to_read, max_size_to_read);
\* the pooled receive asks conn.recv(n) for all n at once
StartRecv(n) ==
    /\ size_to_read' = n
    /\ size' = IF impl = "pooled" THEN n ELSE Min(n, max_size_to_read)
    /\ buffer' = <<>>

Fail(msg) ==
    /\ stage' = "failed"
    /\ recv_error' = msg
    /\ UNCHANGED <<size_to_read, size, buffer, decoder_input>>

\* a receive that rejects a version other than the client's own
AfterFieldCheckingVersion(bytes) ==
    CASE stage = "header" ->
            IF bytes = <<>> THEN Fail("socket connection broken")
            ELSE IF ~HeaderAccepted(bytes) THEN Fail("Fake server")
            ELSE /\ stage' = "version"
                 /\ StartRecv(5)
                 /\ UNCHANGED <<recv_error, decoder_input>>
      [] stage = "version" ->
            IF bytes # VersionBincodeSerialize(version)
            THEN Fail("version mismatch")
            ELSE /\ stage' = "length"
                 /\ StartRecv(8)
                 /\ UNCHANGED <<recv_error, decoder_input>>
      [] stage = "length" ->
            /\ stage' = "data"
            /\ StartRecv(FromBytesLittle(bytes))
            /\ UNCHANGED <<recv_error, decoder_input>>
      [] stage = "data" ->
            /\ stage' = "done"
            /\ decoder_input' = bytes
            /\ UNCHANGED <<recv_error, size_to_read, size, buffer>>

\* receive, from one field read to the start of the next: the checks of the
\* header, the version ignored, the length decoded, the data handed to the decoder
AfterField(bytes) ==
    CASE stage = "header" ->
            IF bytes = <<>> THEN Fail("socket connection broken")
            ELSE IF ~HeaderAccepted(bytes) THEN Fail("Fake server")
            ELSE /\ stage' = "version"
                 /\ StartRecv(5)
                 /\ UNCHANGED <<recv_error, decoder_input>>
      [] stage = "version" ->
            /\ stage' = "length"
            /\ StartRecv(8)
            /\ UNCHANGED <<recv_error, decoder_input>>
      [] stage = "length" ->
            /\ stage' = "data"
            /\ StartRecv(FromBytesLittle(bytes))
            /\ UNCHANGED <<recv_error, decoder_input>>
      [] stage = "data" ->
            /\ stage' = "done"
            /\ decoder_input' = bytes
            /\ UNCHANGED <<recv_error, size_to_read, size, buffer>>

\* send: serialize_query(message); the peer answers with a frame of its own
\* around the payload
SerializeQuery ==
    /\ stage = "unsent"
    /\ frame' = serialize_query(version, payload)
    /\ stream' = PeerStream(peer, frame')
    /\ stage' = "sent"
    /\ UNCHANGED <<impl, version, payload, peer, size_to_read, size, buffer,
                   recv_error, bytes_read, decoder_input>>
    /\ UNCHANGED <<peer_closed, eof_reads>>
    /\ UNCHANGED non_frame_vars

\* the frame of the response that the next exchange of the connection will
\* read
FollowingFrame == serialize_query(<<0, 1, 0>>, <<9, 8>>)

\* send on a connection whose peer has the response of the next exchange
\* ready as well: both frames are on the connection, back to back
SerializeQueryPipelined ==
    /\ stage = "unsent"
    /\ frame' = serialize_query(version, payload)
    /\ stream' = PeerStream(peer, frame') \o FollowingFrame
    /\ stage' = "sent"
    /\ UNCHANGED <<impl, version, payload, peer, size_to_read, size, buffer,
                   recv_error, bytes_read, decoder_input>>
    /\ UNCHANGED <<peer_closed, eof_reads>>
    /\ UNCHANGED non_frame_vars

\* receive begins: buf_reader.recv(8) (conn.recv(8) in the pooled receive)
ReceiveStart ==
    /\ stage = "sent"
    /\ stage' = "header"
    /\ StartRecv(8)
    /\ UNCHANGED <<impl, version, payload, peer, frame, stream, recv_error,
                   bytes_read, decoder_input>>
    /\ UNCHANGED <<peer_closed, eof_reads>>
    /\ UNCHANGED non_frame_vars

\* one turn of the loop of BufReader.recv / AsyncBufReader.recv:
\* data = conn.recv(size); buffer += data; size_to_read -= len(data);
\* size = min(size_to_read, size)
BufReaderRecv ==
    /\ impl \in {"blocking", "async"}
    /\ stage \in Fields
    /\ size_to_read > 0
    /\ stream # <<>>
    /\ \E k \in Chunks(Min(size, Len(stream))) :
          /\ buffer' = buffer \o SubSeq(stream, 1, k)
          /\ size_to_read' = size_to_read - k
          /\ size' = Min(size_to_read - k, size)
          /\ Take(k)
    /\ UNCHANGED <<impl, version, payload, peer, frame, stage, recv_error, decoder_input>>
    /\ UNCHANGED <<peer_closed, eof_reads>>
    /\ UNCHANGED non_frame_vars

\* the loop of BufReader.recv ends and receive goes on with the field
BufReaderReturn ==
    /\ impl \in {"blocking", "async"}
    /\ stage \in Fields
    /\ size_to_read = 0
    /\ AfterField(buffer)
    /\ UNCHANGED <<impl, version, payload, peer, frame, stream, bytes_read>>
    /\ UNCHANGED <<peer_closed, eof_reads>>
    /\ UNCHANGED non_frame_vars

\* the pooled receive: one conn.recv(n) per field, its result taken as the field
ConnRecv ==
    /\ impl = "pooled"
    /\ stage \in Fields
    /\ IF size = 0
       THEN /\ AfterField(<<>>)
            /\ UNCHANGED <<stream, bytes_read>>
       ELSE /\ stream # <<>>
            /\ \E k \in Chunks(Min(size, Len(stream))) :
                  /\ AfterField(SubSeq(stream, 1, k))
                  /\ Take(k)
    /\ UNCHANGED <<impl, version, payload, peer, frame>>
    /\ UNCHANGED <<peer_closed, eof_reads>>
    /\ UNCHANGED non_frame_vars

\* the peer closes its end, having sent only the first k bytes of what the
\* client has not yet read
PeerClose ==
    /\ stage \in {"sent"} \cup Fields
    /\ ~peer_closed
    /\ \E k \in ClosePoints(Len(stream)) : stream' = SubSeq(stream, 1, k)
    /\ peer_closed' = TRUE
    /\ UNCHANGED <<impl, version, payload, peer, frame, stage, size_to_read, size,
                   buffer, recv_error, bytes_read, decoder_input, eof_reads>>
    /\ UNCHANGED non_frame_vars

\* one turn of the loop of BufReader.recv / AsyncBufReader.recv at the end of
\* the stream: data = conn.recv(size) is b""; buffer += data;
\* size_to_read -= len(data); size = min(size_to_read, size); the loop
\* condition size_to_read > 0 still holds
BufReaderRecvEof ==
    /\ impl \in {"blocking", "async"}
    /\ stage \in Fields
    /\ size_to_read > 0
    /\ stream = <<>> /\ peer_closed
    /\ buffer' = buffer \o <<>>
    /\ size_to_read' = size_to_read - 0
    /\ size' = Min(size_to_read - 0, size)
    /\ eof_reads' = Min(eof_reads + 1, MaxEofReads)
    /\ UNCHANGED <<impl, version, payload, peer, frame, stream, stage, recv_error,
                   bytes_read, decoder_input, peer_closed>>
    /\ UNCHANGED non_frame_vars

\* the pooled receive at the end of the stream: conn.recv(n) is b"", taken as
\* the field; an empty header raises "socket connection broken"
ConnRecvEof ==
    /\ impl = "pooled"
    /\ stage \in Fields
    /\ size > 0
    /\ stream = <<>> /\ peer_closed
    /\ AfterField(<<>>)
    /\ eof_reads' = Min(eof_reads + 1, MaxEofReads)
    /\ UNCHANGED <<impl, version, payload, peer, frame, stream, bytes_read,
                   peer_closed>>
    /\ UNCHANGED non_frame_vars

\* no frame built, nothing received
FrameRest ==
    /\ frame = <<>>
    /\ stream = <<>>
    /\ stage = "unsent"
    /\ size_to_read = 0
    /\ size = 0
    /\ buffer = <<>>
    /\ recv_error = "none"
    /\ bytes_read = 0
    /\ decoder_input = <<>>
    /\ peer_closed = FALSE
    /\ eof_reads = 0

\* the parts of the receive model that stay fixed in the other specifications
FrameIdle ==
    /\ impl = "blocking"
    /\ version = <<0, 1, 0>>
    /\ payload = <<>>
    /\ peer = HEADER
    /\ FrameRest

\* Result.VARIANTS, in the order of the list
ResultVARIANTS == <<"Ok", "Err">>

\* the INDEX of each alternative of Result
ResultINDEX == [Ok |-> 0, Err |-> 1]

\* ServerResponse.VARIANTS, in the order of the list
ServerResponseVARIANTS ==
    <<"Unit", "Pong", "ClientList", "StoreList", "InfoServer", "Set", "Get",
      "GetSimN", "Del", "CreateIndex">>

\* the INDEX of each alternative of ServerResponse
ServerResponseINDEX ==
    [Unit |-> 0, Pong |-> 1, ClientList |-> 2, StoreList |-> 3, InfoServer |-> 4,
     Set |-> 5, Get |-> 6, GetSimN |-> 7, Del |-> 8, CreateIndex |-> 9]

\* Query.VARIANTS, in the order of the list
QueryVARIANTS ==
    <<"CreateStore", "GetKey", "GetPred", "GetSimN", "CreatePredIndex",
      "CreateNonLinearAlgorithmIndex", "DropPredIndex",
      "DropNonLinearAlgorithmIndex", "Set", "DelKey", "DelPred", "DropStore",
      "InfoServer", "ListStores", "ListClients", "Ping">>

\* a schema whose Ping and CreateStore have changed numbers
QueryINDEXRenumbered ==
    [CreateStore |-> 15, GetKey |-> 1, GetPred |-> 2, GetSimN |-> 3,
     CreatePredIndex |-> 4, CreateNonLinearAlgorithmIndex |-> 5, DropPredIndex |-> 6,
     DropNonLinearAlgorithmIndex |-> 7, Set |-> 8, DelKey |-> 9, DelPred |-> 10,
     DropStore |-> 11, InfoServer |-> 12, ListStores |-> 13, ListClients |-> 14,
     Ping |-> 0]

\* the INDEX of each alternative of Query
QueryINDEX ==
    [CreateStore |-> 0, GetKey |-> 1, GetPred |-> 2, GetSimN |-> 3,
     CreatePredIndex |-> 4, CreateNonLinearAlgorithmIndex |-> 5, DropPredIndex |-> 6,
     DropNonLinearAlgorithmIndex |-> 7, Set |-> 8, DelKey |-> 9, DelPred |-> 10,
     DropStore |-> 11, InfoServer |-> 12, ListStores |-> 13, ListClients |-> 14,
     Ping |-> 15]

\* the alternative a decoder takes for a variant index: VARIANTS[index], none
\* outside the list
VariantAt(variants, index) ==
    IF index + 1 \in 1..Len(variants) THEN variants[index + 1] ELSE "none"

(***************************************************************************)
(* The decoding of a response payload (internals/db_response.py over the   *)
(* bincode module): a ServerResult is a sequence of Result; a sequence is   *)
(* its length as u64 followed by its elements, a variant its index as u32   *)
(* followed by its value, a str its length as u64 followed by its bytes,    *)
(* all little-endian.                                                       *)
(***************************************************************************)
\* Result__Ok(value: ServerResponse), for the responses without fields
OkOutcome(resp) == [ok |-> TRUE, response |-> resp, message |-> <<>>]
\* Result__Err(value: str)
ErrOutcome(msg) == [ok |-> FALSE, response |-> "none", message |-> msg]

\* the variant index written for a ServerResponse: the INDEX of its class
ResponseIndex(resp) == ServerResponseINDEX[resp]

\* bincode.serialize of one Result: Result__Ok.INDEX = 0, Result__Err.INDEX = 1
ResultSerialize(r) ==
    IF r.ok
    THEN ToBytesLittle(ResultINDEX["Ok"], 4)
            \o ToBytesLittle(ResponseIndex(r.response), 4)
    ELSE ToBytesLittle(ResultINDEX["Err"], 4)
            \o ToBytesLittle(Len(r.message), 8) \o r.message

RECURSIVE ResultsSerialize(_)
ResultsSerialize(rs) ==
    IF rs = <<>> THEN <<>>
    ELSE ResultSerialize(Head(rs)) \o ResultsSerialize(Tail(rs))

\* ServerResult.bincode_serialize
bincode_serialize(rs) == ToBytesLittle(Len(rs), 8) \o ResultsSerialize(rs)

DeserializeFailed == [error |-> "DeserializationError", value |-> <<>>, buffer |-> <<>>]

Drop(b, n) == SubSeq(b, n + 1, Len(b))

\* bincode.deserialize of one Result: the value and the bytes not consumed
DeserializeResult(b) ==
    IF Len(b) < 4 THEN DeserializeFailed
    ELSE LET index == VariantAt(ResultVARIANTS, FromBytesLittle(SubSeq(b, 1, 4)))
             rest == Drop(b, 4) IN
         IF index = "Ok"
         THEN IF Len(rest) < 4 THEN DeserializeFailed
              ELSE LET v == VariantAt(ServerResponseVARIANTS,
                                      FromBytesLittle(SubSeq(rest, 1, 4))) IN
                   IF v \notin {"Unit", "Pong"} THEN DeserializeFailed
                   ELSE [error |-> "none",
                         value |-> <<OkOutcome(v)>>,
                         buffer |-> Drop(rest, 4)]
         ELSE IF index = "Err"
         THEN IF Len(rest) < 8 THEN DeserializeFailed
              ELSE LET n == FromBytesLittle(SubSeq(rest, 1, 8)) IN
                   IF Len(rest) < 8 + n THEN DeserializeFailed
                   ELSE [error |-> "none",
                         value |-> <<ErrOutcome(SubSeq(rest, 9, 8 + n))>>,
                         buffer |-> Drop(rest, 8 + n)]
         ELSE DeserializeFailed

\* the n elements of a sequence
RECURSIVE DeserializeResults(_, _, _)
DeserializeResults(b, n, acc) ==
    IF n = 0 THEN [error |-> "none", value |-> acc, buffer |-> b]
    ELSE LET d == DeserializeResult(b) IN
         IF d.error # "none" THEN DeserializeFailed
         ELSE DeserializeResults(d.buffer, n - 1, acc \o d.value)

\* bincode.deserialize(input, ServerResult): the value and the unread buffer
BincodeDeserialize(input) ==
    IF Len(input) < 8 THEN DeserializeFailed
    ELSE DeserializeResults(Drop(input, 8), FromBytesLittle(SubSeq(input, 1, 8)), <<>>)

\* the unread buffer ignored
bincode_deserialize_ignoring_buffer(input) ==
    LET d == BincodeDeserialize(input) IN
    [error |-> d.error, results |-> d.value]

\* ServerResult.bincode_deserialize: v, buffer = bincode.deserialize(...);
\* if buffer: raise DeserializationError("Some input bytes were not read")
bincode_deserialize(input) ==
    LET d == BincodeDeserialize(input) IN
    IF d.error # "none" THEN [error |-> d.error, results |-> <<>>]
    ELSE IF d.buffer # <<>> THEN [error |-> "DeserializationError", results |-> <<>>]
    ELSE [error |-> "none", results |-> d.value]

\* AhnlichMessageProtocol.deserialize_server_response
deserialize_server_response(b) == bincode_deserialize(b)

Outcomes == {OkOutcome("Unit"), OkOutcome("Pong"), ErrOutcome(<<>>), ErrOutcome(<<101>>)}

\* the responses of a server: up to MaxOutcomes outcomes
Envelopes == UNION {[1..n -> Outcomes] : n \in 0..MaxOutcomes}

\* what a peer may put behind a complete envelope: nothing, one byte, the
\* bytes of one more outcome
Trailings == {<<>>, <<0>>, <<7>>, ResultSerialize(OkOutcome("Pong"))}

NotDecoded == [error |-> "none", results |-> <<>>]

\* nothing encoded, nothing decoded
DecodeRest ==
    /\ envelope = <<>>
    /\ trailing = <<>>
    /\ decoded = NotDecoded

\* receive: response = self.deserialize_server_response(data, response_class)
DeserializeServerResponse ==
    /\ stage = "done"
    /\ decoded' = deserialize_server_response(decoder_input)
    /\ stage' = "returned"
    /\ UNCHANGED <<impl, version, payload, peer, frame, stream, size_to_read, size,
                   buffer, recv_error, bytes_read, decoder_input, peer_closed,
                   eof_reads>>
    /\ UNCHANGED <<envelope, trailing>>
    /\ UNCHANGED <<exchange_vars, builder_vars, life_vars, models_vars, codec_vars,
                 shared_vars, cleanup_vars>>

(***************************************************************************)
(* The envelope of the requests (internals/db_query.py over the bincode     *)
(* runtime) and the round trip of either envelope through its codec.       *)
(***************************************************************************)
\* the requests without fields
FieldlessQueries == {"InfoServer", "ListStores", "ListClients", "Ping"}

\* bincode.serialize of one Query: the INDEX of its class as variant index,
\* then its fields (of create_store and get_sim_n, the validated number)
QuerySerialize(q) ==
    ToBytesLittle(QueryINDEX[q.kind], 4)
       \o (IF q.kind \in FieldlessQueries THEN <<>> ELSE ToBytesLittle(q.arg, 8))

RECURSIVE QueriesSerialize(_)
QueriesSerialize(qs) ==
    IF qs = <<>> THEN <<>>
    ELSE QuerySerialize(Head(qs)) \o QueriesSerialize(Tail(qs))

\* an Optional[str]: a presence byte, then the string behind its length
OptionSerialize(o) ==
    IF o.some THEN <<1>> \o ToBytesLittle(Len(o.value), 8) \o o.value ELSE <<0>>

\* an envelope written without its trace_id
ServerQuerySerializeWithoutTrace(m) ==
    ToBytesLittle(Len(m.queries), 8) \o QueriesSerialize(m.queries)

\* ServerQuery.bincode_serialize: queries, then trace_id
ServerQuerySerialize(m) ==
    ToBytesLittle(Len(m.queries), 8) \o QueriesSerialize(m.queries)
       \o OptionSerialize(m.trace_id)

\* bincode.deserialize of one Query: the value and the bytes not consumed
QueryDeserialize(b) ==
    IF Len(b) < 4 THEN DeserializeFailed
    ELSE LET kind == VariantAt(QueryVARIANTS, FromBytesLittle(SubSeq(b, 1, 4)))
             rest == Drop(b, 4) IN
         IF kind \in FieldlessQueries
         THEN [error |-> "none", value |-> <<Query(kind, NoArg)>>, buffer |-> rest]
         ELSE IF kind \in {"CreateStore", "GetSimN"}
         THEN IF Len(rest) < 8 THEN DeserializeFailed
              ELSE [error |-> "none",
                    value |-> <<Query(kind, FromBytesLittle(SubSeq(rest, 1, 8)))>>,
                    buffer |-> Drop(rest, 8)]
         ELSE DeserializeFailed

RECURSIVE QueriesDeserialize(_, _, _)
QueriesDeserialize(b, n, acc) ==
    IF n = 0 THEN [error |-> "none", value |-> acc, buffer |-> b]
    ELSE LET d == QueryDeserialize(b) IN
         IF d.error # "none" THEN DeserializeFailed
         ELSE QueriesDeserialize(d.buffer, n - 1, acc \o d.value)

NoTrace == [some |-> FALSE, value |-> <<>>]

OptionDeserialize(b) ==
    IF b = <<>> THEN DeserializeFailed
    ELSE IF Head(b) = 0 THEN [error |-> "none", value |-> NoTrace, buffer |-> Tail(b)]
    ELSE IF Head(b) # 1 \/ Len(b) < 9 THEN DeserializeFailed
    ELSE LET n == FromBytesLittle(SubSeq(b, 2, 9)) IN
         IF Len(b) < 9 + n THEN DeserializeFailed
         ELSE [error |-> "none",
               value |-> [some |-> TRUE, value |-> SubSeq(b, 10, 9 + n)],
               buffer |-> Drop(b, 9 + n)]

NoServerQuery == [queries |-> <<>>, trace_id |-> NoTrace]

\* ServerQuery.bincode_deserialize: v, buffer = bincode.deserialize(...);
\* if buffer: raise DeserializationError("Some input bytes were not read")
ServerQueryDeserialize(input) ==
    IF Len(input) < 8 THEN [error |-> "DeserializationError", value |-> NoServerQuery]
    ELSE LET qs == QueriesDeserialize(Drop(input, 8),
                                      FromBytesLittle(SubSeq(input, 1, 8)), <<>>) IN
         IF qs.error # "none" THEN [error |-> qs.error, value |-> NoServerQuery]
         ELSE LET tr == OptionDeserialize(qs.buffer) IN
              IF tr.error # "none" \/ tr.buffer # <<>>
              THEN [error |-> "DeserializationError", value |-> NoServerQuery]
              ELSE [error |-> "none",
                    value |-> [queries |-> qs.value, trace_id |-> tr.value]]

\* the requests of the envelopes: without fields, and with a number of one
\* and of two bytes
QueryValues ==
    {Query("Ping", NoArg), Query("ListStores", NoArg), Query("CreateStore", 1),
     Query("CreateStore", 300), Query("GetSimN", 2)}

\* no trace id, the empty one, one of two characters
TraceIds == {NoTrace, [some |-> TRUE, value |-> <<>>],
             [some |-> TRUE, value |-> <<116, 49>>]}

\* the ServerQuery values of up to MaxQueries requests
ServerQueries ==
    {[queries |-> qs, trace_id |-> tr] :
        qs \in UNION {[1..n -> QueryValues] : n \in 0..MaxQueries}, tr \in TraceIds}

NoRoundTrip ==
    [kind |-> "none", bytes |-> <<>>, error |-> "none", back_query |-> NoServerQuery,
     back_results |-> <<>>, again |-> <<>>]

\* ServerQuery.bincode_deserialize(v.bincode_serialize()), and the bytes of
\* the value that came back
RoundTripServerQuery ==
    /\ codec.kind = "none"
    /\ LET bytes == ServerQuerySerialize(server_query)
           back == ServerQueryDeserialize(bytes) IN
       codec' = [NoRoundTrip EXCEPT !.kind = "ServerQuery", !.bytes = bytes,
                    !.error = back.error, !.back_query = back.value,
                    !.again = IF back.error = "none"
                              THEN ServerQuerySerialize(back.value) ELSE <<>>]
    /\ UNCHANGED server_query
    /\ UNCHANGED <<exchange_vars, builder_vars, frame_vars, decode_vars, life_vars,
                   models_vars,
                 shared_vars, cleanup_vars>>

\* ServerResult.bincode_deserialize(v.bincode_serialize()), and the bytes of
\* the value that came back
RoundTripServerResult ==
    /\ codec.kind = "none"
    /\ LET bytes == bincode_serialize(envelope)
           back == bincode_deserialize(bytes) IN
       codec' = [NoRoundTrip EXCEPT !.kind = "ServerResult", !.bytes = bytes,
                    !.error = back.error, !.back_results = back.results,
                    !.again = IF back.error = "none"
                              THEN bincode_serialize(back.results) ELSE <<>>]
    /\ UNCHANGED server_query
    /\ UNCHANGED <<exchange_vars, builder_vars, frame_vars, decode_vars, life_vars,
                   models_vars,
                 shared_vars, cleanup_vars>>

\* no envelope, no round trip
CodecRest ==
    /\ server_query = NoServerQuery
    /\ codec = NoRoundTrip

(***************************************************************************)
(* AhnlichMessageProtocol in its two scheduling models: send and receive   *)
(* over a blocking socket with conn.settimeout(timeout_sec), async_send    *)
(* and async_receive over asyncio streams. Each is the function of the     *)
(* bytes the peer sends before it closes or goes silent.                   *)
(***************************************************************************)
\* send: serialized_bin = self.serialize_query(message); conn.sendall(...)
send(v, resp) == serialize_query(v, resp)

\* async_send: serialized_bin = self.serialize_query(message);
\* writer.write(serialized_bin); await writer.drain()
async_send(v, resp) == serialize_query(v, resp)

\* BufReader.recv(n) on a socket with a timeout: the loop ends when n bytes
\* are read; when the peer has closed before, every further conn.recv returns
\* b"" and the loop goes on; when the peer is silent, conn.recv raises
\* socket.timeout
BufReaderRecvAll(s, n, closed) ==
    IF Len(s) >= n
    THEN [status |-> "read", data |-> SubSeq(s, 1, n), rest |-> SubSeq(s, n + 1, Len(s))]
    ELSE [status |-> IF closed THEN "spins" ELSE "timeout", data |-> <<>>, rest |-> <<>>]

\* AsyncBufReader.recv(n): the same loop over await reader.read(size), which
\* returns b"" at the end of the stream and has no timeout
AsyncBufReaderRecvAll(s, n, closed) ==
    IF Len(s) >= n
    THEN [status |-> "read", data |-> SubSeq(s, 1, n), rest |-> SubSeq(s, n + 1, Len(s))]
    ELSE [status |-> IF closed THEN "spins" ELSE "waits", data |-> <<>>, rest |-> <<>>]

NoResults == <<>>

Ended(status, results) == [status |-> status, results |-> results]

\* what receive returns or raises on deserialize_server_response's result
Decoded(d) ==
    IF d.error = "none" THEN Ended("returned", d.results)
    ELSE Ended(d.error, NoResults)

\* AhnlichMessageProtocol.receive
receive(s, closed) ==
    LET header == BufReaderRecvAll(s, 8, closed) IN
    IF header.status # "read" THEN Ended(header.status, NoResults)
    ELSE IF header.data = <<>> THEN Ended("socket connection broken", NoResults)
    ELSE IF header.data # HEADER THEN Ended("Fake server", NoResults)
    ELSE LET ver == BufReaderRecvAll(header.rest, 5, closed) IN
    IF ver.status # "read" THEN Ended(ver.status, NoResults)
    ELSE LET length == BufReaderRecvAll(ver.rest, 8, closed) IN
    IF length.status # "read" THEN Ended(length.status, NoResults)
    ELSE LET length_to_read == FromBytesLittle(length.data)
             data == BufReaderRecvAll(length.rest, length_to_read, closed) IN
    IF data.status # "read" THEN Ended(data.status, NoResults)
    ELSE Decoded(deserialize_server_response(data.data))

\* AhnlichMessageProtocol.async_receive
async_receive(s, closed) ==
    LET header == AsyncBufReaderRecvAll(s, 8, closed) IN
    IF header.status # "read" THEN Ended(header.status, NoResults)
    ELSE IF header.data = <<>> THEN Ended("socket connection broken", NoResults)
    ELSE IF header.data # HEADER THEN Ended("Fake server", NoResults)
    ELSE LET ver == AsyncBufReaderRecvAll(header.rest, 5, closed) IN
    IF ver.status # "read" THEN Ended(ver.status, NoResults)
    ELSE LET length == AsyncBufReaderRecvAll(ver.rest, 8, closed) IN
    IF length.status # "read" THEN Ended(length.status, NoResults)
    ELSE LET length_to_read == FromBytesLittle(length.data)
             data == AsyncBufReaderRecvAll(length.rest, length_to_read, closed) IN
    IF data.status # "read" THEN Ended(data.status, NoResults)
    ELSE Decoded(deserialize_server_response(data.data))

\* the peer has sent less than the receive goes on to ask for: not the 8
\* bytes of the token, or the magic token and less than the frame it begins
StopsMidFrame(s) ==
    \/ Len(s) < 8
    \/ /\ SubSeq(s, 1, 8) = HEADER
       /\ \/ Len(s) < 21
          \/ Len(s) < 21 + FromBytesLittle(SubSeq(s, 14, 21))

NotEnded == Ended("none", NoResults)

\* both protocols write the request of the same envelope
SendBoth ==
    /\ stage = "unsent"
    /\ written' = [blocking |-> send(version, payload),
                   async |-> async_send(version, payload)]
    /\ frame' = serialize_query(version, payload)
    /\ stream' = PeerStream(peer, frame')
    /\ stage' = "sent"
    /\ UNCHANGED <<outcome, stalled>>
    /\ UNCHANGED <<impl, version, payload, peer, size_to_read, size, buffer,
                   recv_error, bytes_read, decoder_input, peer_closed, eof_reads>>
    /\ UNCHANGED <<exchange_vars, builder_vars, decode_vars, life_vars, codec_vars,
                 shared_vars, cleanup_vars>>

\* the peer goes silent without closing, having sent only the first k bytes
PeerStall ==
    /\ stage = "sent"
    /\ ~peer_closed
    /\ ~stalled
    /\ \E k \in ClosePoints(Len(stream)) : stream' = SubSeq(stream, 1, k)
    /\ stalled' = TRUE
    /\ UNCHANGED <<written, outcome>>
    /\ UNCHANGED <<impl, version, payload, peer, frame, stage, size_to_read, size,
                   buffer, recv_error, bytes_read, decoder_input, peer_closed,
                   eof_reads>>
    /\ UNCHANGED <<exchange_vars, builder_vars, decode_vars, life_vars, codec_vars,
                 shared_vars, cleanup_vars>>

\* both protocols receive the same bytes
ReceiveBoth ==
    /\ stage = "sent"
    /\ outcome' = [blocking |-> receive(stream, peer_closed),
                   async |-> async_receive(stream, peer_closed)]
    /\ stage' = "compared"
    /\ UNCHANGED <<written, stalled>>
    /\ UNCHANGED <<impl, version, payload, peer, frame, stream, size_to_read, size,
                   buffer, recv_error, bytes_read, decoder_input, peer_closed,
                   eof_reads>>
    /\ UNCHANGED <<exchange_vars, builder_vars, decode_vars, life_vars, codec_vars,
                 shared_vars, cleanup_vars>>

\* nothing written, nothing received
ModelsRest ==
    /\ written = [blocking |-> <<>>, async |-> <<>>]
    /\ outcome = [blocking |-> NotEnded, async |-> NotEnded]
    /\ stalled = FALSE

(***************************************************************************)
(* Failing exchanges and the liveness check of the pool                    *)
(* (internals/pool_wrapper.py, BaseClient.process_request). The pool's     *)
(* connection() context manager releases the connection to the pool when   *)
(* the with block is left, by return or by exception; at checkout the pool *)
(* asks check_aliveness about an idle connection and disposes of one        *)
(* reported dead.                                                           *)
(***************************************************************************)
\* socket_nonblocking: the timeout set on the socket for the peek
socket_nonblocking(system) == IF system = "windows" THEN "1e-9" ELSE "0"

\* conn.recv(1, socket.MSG_PEEK) under that timeout: a byte when data is
\* pending; b"" or a reset (OSError) when the peer has closed; with the peer
\* open and nothing pending, BlockingIOError(EAGAIN) on the non-blocking
\* socket and socket.timeout (an OSError) on the socket with a timeout;
\* "BlockingOther" is a BlockingIOError whose errno is not EAGAIN
PeekOutcomes(timeout, pending, open) ==
    IF pending THEN {"byte"}
    ELSE IF ~open THEN {"empty", "OSError"}
    ELSE (IF timeout = "0" THEN {"EAGAIN"} ELSE {"timeout"}) \cup {"BlockingOther"}

\* check_aliveness: False on b"", True on a byte; BlockingIOError with errno
\* EAGAIN passes to return True, with another errno is raised again; any other
\* OSError returns False
check_aliveness(peek) ==
    CASE peek = "empty" -> "dead"
      [] peek = "byte" -> "alive"
      [] peek = "EAGAIN" -> "alive"
      [] peek = "BlockingOther" -> "raise"
      [] peek \in {"timeout", "OSError"} -> "dead"

\* what the next receive on a connection finds: the response frames that
\* have arrived and whether the frame at the head is partly read
Available(c) == [wire_in |-> wire_in[c], residue |-> residue[c]]

NoBytes == [wire_in |-> <<>>, residue |-> FALSE]

\* a conn.recv(1) without MSG_PEEK: the first pending byte is taken from the
\* connection
recv_one_byte(available) ==
    IF available.wire_in # <<>> /\ ~available.residue
    THEN [available EXCEPT !.residue = TRUE]
    ELSE available

\* check_aliveness: conn.recv(1, socket.MSG_PEEK) leaves what is pending on
\* the connection
recv_msg_peek(available) == available

NoCheck ==
    [timeout |-> "none", peek |-> "none", result |-> "none", pending |-> FALSE,
     peer_open |-> TRUE, before |-> NoBytes, after |-> NoBytes]

NoAttempts == [checkouts |-> 0, writes |-> 0]

\* the bound of the counters of attempts
MaxAttempts == 2

Count(n) == IF n < MaxAttempts THEN n + 1 ELSE n

\* a caller enters process_request, for the first time or after an earlier
\* call has returned or raised
LifeCall(t) ==
    /\ pc[t] \in {"idle", "done", "failed"}
    /\ pc' = [pc EXCEPT ![t] = "checkout"]
    /\ sent_on' = [sent_on EXCEPT ![t] = 0]
    /\ recv_on' = [recv_on EXCEPT ![t] = 0]
    /\ response' = [response EXCEPT ![t] = 0]
    /\ failure' = [failure EXCEPT ![t] = "none"]
    /\ leased_in_call' = [leased_in_call EXCEPT ![t] = FALSE]
    /\ check' = NoCheck
    /\ attempts' = [attempts EXCEPT ![t] = NoAttempts]
    /\ UNCHANGED <<max_pool_size, pool_closed, conn_state, holder, conn,
                   wire_out, wire_in, inflight>>
    /\ UNCHANGED <<platform, peer_open, residue, conn_failure>>
    /\ UNCHANGED <<builder_vars, frame_vars, decode_vars, models_vars, codec_vars,
                 shared_vars, cleanup_vars>>

\* with self.connected_socket as conn, no connection idle: the pool creates
\* one below its ceiling
CheckoutNew(t) ==
    /\ pc[t] = "checkout"
    /\ \A c \in Conns : conn_state[c] # "idle"
    /\ \E c \in Conns :
          /\ conn_state[c] = "absent"
          /\ \A d \in Conns : conn_state[d] = "absent" => c <= d
          /\ Acquire(t, c)
          /\ peer_open' = [peer_open EXCEPT ![c] = TRUE]
    /\ pc' = [pc EXCEPT ![t] = "send"]
    /\ leased_in_call' = [leased_in_call EXCEPT ![t] = TRUE]
    /\ attempts' = [attempts EXCEPT ![t].checkouts = Count(@)]
    /\ UNCHANGED <<max_pool_size, pool_closed, sent_on, recv_on, response,
                   wire_out, wire_in, inflight>>
    /\ UNCHANGED <<platform, residue, conn_failure, failure>>
    /\ check' = NoCheck
    /\ UNCHANGED <<builder_vars, frame_vars, decode_vars, models_vars, codec_vars,
                 shared_vars, cleanup_vars>>

\* with self.connected_socket as conn, a connection idle: the pool asks
\* check_aliveness; an alive connection is leased, a dead one is disposed of
\* and the checkout goes on, an exception of the check leaves the checkout
CheckoutIdle(t) ==
    /\ pc[t] = "checkout"
    /\ ~pool_closed
    /\ \E c \in Conns :
          /\ conn_state[c] = "idle"
          /\ LET pending == wire_in[c] # <<>> \/ residue[c]
                 timeout == socket_nonblocking(platform) IN
             \E peek \in PeekOutcomes(timeout, pending, peer_open[c]) :
                LET result == check_aliveness(peek)
                    after == recv_msg_peek(Available(c)) IN
                /\ check' = [timeout |-> timeout, peek |-> peek, result |-> result,
                             pending |-> pending, peer_open |-> peer_open[c],
                             before |-> Available(c), after |-> after]
                /\ CASE result = "alive" ->
                          /\ Acquire(t, c)
                          /\ pc' = [pc EXCEPT ![t] = "send"]
                          /\ leased_in_call' = [leased_in_call EXCEPT ![t] = TRUE]
                          /\ attempts' = [attempts EXCEPT ![t].checkouts = Count(@)]
                          /\ wire_in' = [wire_in EXCEPT ![c] = after.wire_in]
                          /\ residue' = [residue EXCEPT ![c] = after.residue]
                          /\ UNCHANGED <<wire_out, inflight,
                                         conn_failure, failure, peer_open>>
                     [] result = "dead" ->
                          /\ conn_state' = [conn_state EXCEPT ![c] = "absent"]
                          /\ wire_out' = [wire_out EXCEPT ![c] = <<>>]
                          /\ wire_in' = [wire_in EXCEPT ![c] = <<>>]
                          /\ inflight' = [inflight EXCEPT ![c] = {}]
                          /\ residue' = [residue EXCEPT ![c] = FALSE]
                          /\ conn_failure' = [conn_failure EXCEPT ![c] = "none"]
                          /\ peer_open' = [peer_open EXCEPT ![c] = TRUE]
                          /\ UNCHANGED <<holder, conn, pc, leased_in_call, failure,
                                         attempts>>
                     [] result = "raise" ->
                          /\ pc' = [pc EXCEPT ![t] = "failed"]
                          /\ failure' = [failure EXCEPT ![t] = "checkout"]
                          /\ UNCHANGED <<conn_state, holder, conn, wire_out, wire_in,
                                         inflight, residue, conn_failure,
                                         leased_in_call, peer_open, attempts>>
    /\ UNCHANGED <<max_pool_size, pool_closed, sent_on, recv_on, response>>
    /\ UNCHANGED platform
    /\ UNCHANGED <<builder_vars, frame_vars, decode_vars, models_vars, codec_vars,
                 shared_vars, cleanup_vars>>

\* a process_request that caught the exception of its exchange and went
\* back to the checkout for another attempt
ExchangeFailsRetrying(t, kind, consumed) ==
    LET c == conn[t] IN
    /\ pc' = [pc EXCEPT ![t] = "checkout"]
    /\ conn_failure' = [conn_failure EXCEPT ![c] = IF kind = "encode" THEN @ ELSE kind]
    /\ Release(t)
    /\ wire_in' = [wire_in EXCEPT ![c] = IF consumed THEN Tail(@) ELSE @]
    /\ residue' = [residue EXCEPT ![c] = @ \/ consumed]
    /\ inflight' = [inflight EXCEPT ![c] = @ \ {t}]
    /\ UNCHANGED <<max_pool_size, pool_closed, sent_on, recv_on, response, wire_out>>
    /\ UNCHANGED <<platform, peer_open, leased_in_call, attempts, failure>>
    /\ check' = NoCheck
    /\ UNCHANGED <<builder_vars, frame_vars, decode_vars, models_vars, codec_vars,
                 shared_vars, cleanup_vars>>

\* an exception inside the with block of process_request: it leaves the block,
\* the connection goes back to the pool, the caller gets the exception.
\* `consumed`: the receive had taken part of the response at the head
ExchangeFails(t, kind, consumed) ==
    LET c == conn[t] IN
    /\ pc' = [pc EXCEPT ![t] = "failed"]
    /\ failure' = [failure EXCEPT ![t] = kind]
    /\ conn_failure' = [conn_failure EXCEPT ![c] = IF kind = "encode" THEN @ ELSE kind]
    /\ Release(t)
    /\ wire_in' = [wire_in EXCEPT ![c] = IF consumed THEN Tail(@) ELSE @]
    /\ residue' = [residue EXCEPT ![c] = @ \/ consumed]
    /\ inflight' = [inflight EXCEPT ![c] = @ \ {t}]
    /\ UNCHANGED <<max_pool_size, pool_closed, sent_on, recv_on, response, wire_out>>
    /\ UNCHANGED <<platform, peer_open, leased_in_call, attempts>>
    /\ check' = NoCheck
    /\ UNCHANGED <<builder_vars, frame_vars, decode_vars, models_vars, codec_vars,
                 shared_vars, cleanup_vars>>

\* with self.connected_socket as conn: the pool cannot establish a new
\* connection; the exception of the checkout reaches the caller
ConnectFails(t) ==
    /\ pc[t] = "checkout"
    /\ ~pool_closed
    /\ \A c \in Conns : conn_state[c] # "idle"
    /\ Cardinality(Existing) < TotalMaxSize
    /\ pc' = [pc EXCEPT ![t] = "failed"]
    /\ failure' = [failure EXCEPT ![t] = "connect"]
    /\ UNCHANGED <<max_pool_size, pool_closed, conn_state, holder, conn, sent_on,
                   recv_on, response, wire_out, wire_in, inflight>>
    /\ UNCHANGED <<platform, peer_open, residue, conn_failure, leased_in_call, attempts>>
    /\ check' = NoCheck
    /\ UNCHANGED <<builder_vars, frame_vars, decode_vars, models_vars, codec_vars,
                 shared_vars, cleanup_vars>>

\* message_protocol.send: serialize_query(message) raises
EncodeFails(t) ==
    /\ pc[t] = "send"
    /\ ExchangeFails(t, "encode", FALSE)

\* message_protocol.send: conn.sendall to a peer that is there. The frames
\* on the wire are not told apart here: each is written as 1
LifeSend(t) ==
    /\ pc[t] = "send"
    /\ peer_open[conn[t]]
    /\ Len(wire_out[conn[t]]) + Len(wire_in[conn[t]]) < MaxBacklog
    /\ wire_out' = [wire_out EXCEPT ![conn[t]] = Append(@, 1)]
    /\ sent_on' = [sent_on EXCEPT ![t] = conn[t]]
    /\ inflight' = [inflight EXCEPT ![conn[t]] = @ \cup {t}]
    /\ pc' = [pc EXCEPT ![t] = "receive"]
    /\ attempts' = [attempts EXCEPT ![t].writes = Count(@)]
    /\ UNCHANGED <<max_pool_size, pool_closed, conn_state, holder, conn,
                   recv_on, response, wire_in>>
    /\ UNCHANGED <<platform, peer_open, residue, conn_failure, failure,
                   leased_in_call>>
    /\ check' = NoCheck
    /\ UNCHANGED <<builder_vars, frame_vars, decode_vars, models_vars, codec_vars,
                 shared_vars, cleanup_vars>>

\* message_protocol.send: conn.sendall raises on a closed peer
SendFails(t) ==
    /\ pc[t] = "send"
    /\ ~peer_open[conn[t]]
    /\ ExchangeFails(t, "network", FALSE)

\* the server answers while its end is open
LifeServerRespond(c) ==
    /\ peer_open[c]
    /\ ServerRespond(c)

\* message_protocol.receive reads the frame at the head of the connection
LifeReceive(t) ==
    /\ pc[t] = "receive"
    /\ ~residue[conn[t]]
    /\ Receive(t)

\* message_protocol.receive: the first 8 bytes are not the magic token (a
\* frame of a misbehaving peer, or what an earlier receive left behind);
\* "Fake server" is raised with the rest of the bytes unread
ReceiveFakeServer(t) ==
    /\ pc[t] = "receive"
    /\ residue[conn[t]] \/ wire_in[conn[t]] # <<>>
    /\ ExchangeFails(t, "fake_server", ~residue[conn[t]])

\* message_protocol.receive: the frame at the head is read whole and
\* deserialize_server_response raises on its payload, inside the with block
ReceiveDecodeFails(t) ==
    LET c == conn[t] IN
    /\ pc[t] = "receive"
    /\ wire_in[c] # <<>> /\ ~residue[c]
    /\ pc' = [pc EXCEPT ![t] = "failed"]
    /\ failure' = [failure EXCEPT ![t] = "decode"]
    /\ Release(t)
    /\ wire_in' = [wire_in EXCEPT ![c] = Tail(@)]
    /\ recv_on' = [recv_on EXCEPT ![t] = c]
    /\ inflight' = [inflight EXCEPT ![c] = @ \ {t}]
    /\ UNCHANGED <<max_pool_size, pool_closed, sent_on, response, wire_out>>
    /\ UNCHANGED <<platform, peer_open, residue, conn_failure, leased_in_call, attempts>>
    /\ check' = NoCheck
    /\ UNCHANGED <<builder_vars, frame_vars, decode_vars, models_vars, codec_vars,
                 shared_vars, cleanup_vars>>

\* message_protocol.receive: conn.settimeout(timeout_sec), and a read gets
\* nothing in time: before the response has arrived, or inside its frame
ReceiveTimeout(t) ==
    /\ pc[t] = "receive"
    /\ peer_open[conn[t]]
    /\ ~residue[conn[t]]
    /\ ExchangeFails(t, "timeout", wire_in[conn[t]] # <<>>)

\* message_protocol.receive: the read raises on a connection its peer reset
ReceiveReset(t) ==
    /\ pc[t] = "receive"
    /\ ~peer_open[conn[t]]
    /\ wire_in[conn[t]] = <<>> /\ ~residue[conn[t]]
    /\ ExchangeFails(t, "network", FALSE)

\* the peer closes its end of a connection; what it had not answered stays
\* unanswered
LifePeerClose(c) ==
    /\ conn_state[c] # "absent"
    /\ peer_open[c]
    /\ peer_open' = [peer_open EXCEPT ![c] = FALSE]
    /\ wire_out' = [wire_out EXCEPT ![c] = <<>>]
    /\ UNCHANGED <<max_pool_size, pool_closed, conn_state, holder, pc, conn,
                   sent_on, recv_on, response, wire_in, inflight>>
    /\ UNCHANGED <<platform, residue, conn_failure, failure, leased_in_call,
                   attempts>>
    /\ check' = NoCheck
    /\ UNCHANGED <<builder_vars, frame_vars, decode_vars, models_vars, codec_vars,
                 shared_vars, cleanup_vars>>

\* no exchange has failed, no liveness check was made
LifeRest ==
    /\ peer_open = [c \in Conns |-> TRUE]
    /\ residue = [c \in Conns |-> FALSE]
    /\ conn_failure = [c \in Conns |-> "none"]
    /\ failure = [t \in Threads |-> "none"]
    /\ leased_in_call = [t \in Threads |-> FALSE]
    /\ check = NoCheck
    /\ attempts = [t \in Threads |-> NoAttempts]

(***************************************************************************)
(* The single-shot operations of ahnlich_client_py/client.py called by      *)
(* several threads on one client. Every operation works on self.builder:    *)
(* the builder method appends, then to_server_query tests the list, copies  *)
(* it, builds the envelope and clears the list, and the envelope goes to    *)
(* process_request. A thread may be switched out between any two of these   *)
(* statements.                                                              *)
(***************************************************************************)
\* nothing called yet
SharedRest ==
    /\ step = [t \in Threads |-> "idle"]
    /\ request_of = [t \in Threads |-> Query("none", NoArg)]
    /\ local_queries = [t \in Threads |-> <<>>]
    /\ handed_to = [t \in Threads |-> <<>>]
    /\ raised_with = [t \in Threads |-> "none"]

\* self.builder.<op>(...): the builder method on the shared pending list
SharedAppend(t, kind, arg) ==
    /\ facade = "shared"
    /\ step[t] = "idle"
    /\ LET r == BuilderMethod(queries[0], kind, arg) IN
          /\ queries' = [queries EXCEPT ![0] = r.queries]
          /\ request_of' = [request_of EXCEPT ![t] = Query(kind, arg)]
          /\ IF r.error = "none"
             THEN /\ step' = [step EXCEPT ![t] = "appended"]
                  /\ UNCHANGED raised_with
             ELSE /\ step' = [step EXCEPT ![t] = "raised"]
                  /\ raised_with' = [raised_with EXCEPT ![t] = r.error]
    /\ UNCHANGED <<local_queries, handed_to>>
    /\ UNCHANGED <<facade, created, appended, drained, tracing_id, tracing_ids, call>>
    /\ UNCHANGED <<exchange_vars, frame_vars, decode_vars, life_vars, models_vars,
                   codec_vars, cleanup_vars>>

\* to_server_query: `if not self.queries: raise AhnlichClientException(...)`
SharedCheckPending(t) ==
    /\ step[t] = "appended"
    /\ IF queries[0] = <<>>
       THEN /\ step' = [step EXCEPT ![t] = "raised"]
            /\ raised_with' = [raised_with EXCEPT ![t] = to_server_query(queries[0]).error]
       ELSE /\ step' = [step EXCEPT ![t] = "checked"]
            /\ UNCHANGED raised_with
    /\ UNCHANGED <<request_of, local_queries, handed_to>>
    /\ UNCHANGED non_shared_vars

\* to_server_query: `queries = self.queries[:]` and the envelope built from it
SharedCopy(t) ==
    /\ step[t] = "checked"
    /\ local_queries' = [local_queries EXCEPT ![t] =
                             ServerQuery(queries[0], tracing_id[0]).queries]
    /\ step' = [step EXCEPT ![t] = "copied"]
    /\ UNCHANGED <<request_of, handed_to, raised_with>>
    /\ UNCHANGED non_shared_vars

\* to_server_query: `self.drop()`
SharedDrop(t) ==
    /\ step[t] = "copied"
    /\ queries' = [queries EXCEPT ![0] = drop(@)]
    /\ step' = [step EXCEPT ![t] = "dropped"]
    /\ UNCHANGED <<request_of, local_queries, handed_to, raised_with>>
    /\ UNCHANGED <<facade, created, appended, drained, tracing_id, tracing_ids, call>>
    /\ UNCHANGED <<exchange_vars, frame_vars, decode_vars, life_vars, models_vars,
                   codec_vars, cleanup_vars>>

\* self.protocol.process_request(message): the envelope is handed over
SharedProcessRequest(t) ==
    /\ step[t] = "dropped"
    /\ handed_to' = [handed_to EXCEPT ![t] = local_queries[t]]
    /\ step' = [step EXCEPT ![t] = "returned"]
    /\ UNCHANGED <<request_of, local_queries, raised_with>>
    /\ UNCHANGED non_shared_vars

\* the parts of the failure model that stay fixed in the other specifications
LifeIdle ==
    /\ platform = "linux"
    /\ LifeRest
    /\ SharedRest
    /\ CleanupRest
    /\ ModelsRest
    /\ CodecRest

(***************************************************************************)
(* Specifications.                                                         *)
(***************************************************************************)
\* BaseClient's exchange over its pool
Init ==
    /\ max_pool_size \in 1..MaxPoolSize
    /\ ExchangeInit
    /\ facade = "base"
    /\ BuilderRest
    /\ FrameIdle
    /\ DecodeRest
    /\ LifeIdle

Next ==
    \/ \E t \in Threads : Call(t)
    \/ \E t \in Threads : Checkout(t)
    \/ \E t \in Threads : CheckoutClosed(t)
    \/ \E t \in Threads : Send(t)
    \/ \E c \in Conns : ServerRespond(c)
    \/ \E t \in Threads : Receive(t)
    \/ \E t \in Threads : Return(t)
    \/ \E t \in Threads : Again(t)
    \/ Cleanup

Spec == Init /\ [][Next]_vars

\* the pooled AhnlichProtocol's exchange over its pool
PNext ==
    \/ \E t \in Threads : PCall(t)
    \/ \E t \in Threads : PSendCheckout(t)
    \/ \E t \in Threads : PSendWrite(t)
    \/ \E t \in Threads : PRecvCheckout(t)
    \/ \E t \in Threads : PRecvRead(t)
    \/ \E t \in Threads : PCheckoutClosed(t)
    \/ \E c \in Conns : ServerRespond(c)
    \/ \E t \in Threads : Again(t)
    \/ Cleanup

SpecPooledProtocol == Init /\ [][PNext]_vars

\* a pool of one connection at a time
PooledCloseInit ==
    /\ max_pool_size = 1
    /\ ExchangeInit
    /\ facade = "base"
    /\ BuilderRest
    /\ FrameIdle
    /\ DecodeRest
    /\ LifeIdle

\* the pooled AhnlichProtocol's exchange over its pool, with peers that may
\* close their end of a connection
PooledCloseNext ==
    \/ \E t \in Threads : PCall(t)
    \/ \E t \in Threads : PSendCheckout(t)
    \/ \E t \in Threads : PSendWrite(t)
    \/ \E t \in Threads : PRecvCheckout(t)
    \/ \E t \in Threads : PRecvRead(t)
    \/ \E t \in Threads : PRecvReadEmpty(t)
    \/ \E t \in Threads : PCheckoutClosed(t)
    \/ \E c \in Conns : ServerRespond(c)
    \/ \E c \in Conns : LifePeerClose(c)
    \/ \E t \in Threads : Again(t)

SpecPooledClose == PooledCloseInit /\ [][PooledCloseNext]_vars

\* the builders and the facades of either client, called by one caller
BuilderInit ==
    /\ max_pool_size = 1
    /\ ExchangeInit
    /\ facade \in {"base", "shared"}
    /\ BuilderRest
    /\ FrameIdle
    /\ DecodeRest
    /\ LifeIdle

BuilderNext ==
    \/ Pipeline
    \/ \E b \in Builders, kind \in Kinds : \E arg \in ArgsOf(kind) :
          BuilderCall(b, kind, arg)
    \/ \E b \in Builders : BuilderDrop(b)
    \/ \E b \in Builders : BuilderExec(b)
    \/ \E kind \in Kinds : \E arg \in ArgsOf(kind) : ClientSingleShot(kind, arg)
    \/ \E kind \in Kinds : \E arg \in ArgsOf(kind) : SharedClientSingleShot(kind, arg)

SpecBuilder == BuilderInit /\ [][BuilderNext]_vars

\* the BaseClient-based clients and their builders, called by one caller
FacadeInit ==
    /\ max_pool_size = 1
    /\ ExchangeInit
    /\ facade = "base"
    /\ BuilderRest
    /\ FrameIdle
    /\ DecodeRest
    /\ LifeIdle

FacadeNext ==
    \/ Pipeline
    \/ \E b \in Builders, kind \in Kinds : \E arg \in ArgsOf(kind) :
          BuilderCall(b, kind, arg)
    \/ \E b \in Builders : BuilderDrop(b)
    \/ \E b \in Builders : BuilderExec(b)
    \/ \E kind \in Kinds : \E arg \in ArgsOf(kind) : ClientSingleShot(kind, arg)
    \/ \E client \in FacadeClients : ClientDropNonLinearAlgorithmIndex(client)

SpecFacade == FacadeInit /\ [][FacadeNext]_vars

\* the single-shot operations of client.py's AhnlichDBClient, one caller
LegacyInit ==
    /\ max_pool_size = 1
    /\ ExchangeInit
    /\ facade = "legacy"
    /\ BuilderRest
    /\ FrameIdle
    /\ DecodeRest
    /\ LifeIdle

LegacyNext ==
    \/ \E kind \in Kinds : \E arg \in ArgsOf(kind) : SharedClientSingleShot(kind, arg)
    \/ LegacyGetPredicate

SpecLegacy == LegacyInit /\ [][LegacyNext]_vars

\* the builders of the BaseClient client, called by callers that pass tracing
\* ids; the requests are pings
TracingInit ==
    /\ max_pool_size = 1
    /\ ExchangeInit
    /\ facade = "base"
    /\ tracing_ids = TracingIds
    /\ BuildersUnused
    /\ FrameIdle
    /\ DecodeRest
    /\ LifeIdle

TracingNext ==
    \/ Pipeline
    \/ \E b \in Builders : BuilderCall(b, "Ping", NoArg)
    \/ \E b \in Builders : BuilderDrop(b)
    \/ \E b \in Builders : BuilderExec(b)
    \/ ClientSingleShot("Ping", NoArg)

SpecTracing == TracingInit /\ [][TracingNext]_vars

\* the single-shot operations of the shared-builder client, called by
\* concurrent threads
SharedInit ==
    /\ max_pool_size = 1
    /\ ExchangeInit
    /\ facade = "shared"
    /\ BuilderRest
    /\ FrameIdle
    /\ DecodeRest
    /\ LifeIdle

SharedNext ==
    \/ \E t \in Threads, kind \in Kinds : \E arg \in ArgsOf(kind) :
          SharedAppend(t, kind, arg)
    \/ \E t \in Threads : SharedCheckPending(t)
    \/ \E t \in Threads : SharedCopy(t)
    \/ \E t \in Threads : SharedDrop(t)
    \/ \E t \in Threads : SharedProcessRequest(t)

SpecShared == SharedInit /\ [][SharedNext]_vars

\* one frame built, sent and answered, and the receive of the answer
FrameInit ==
    /\ max_pool_size = 1
    /\ ExchangeInit
    /\ facade = "base"
    /\ BuilderRest
    /\ impl \in {"blocking", "async", "pooled"}
    /\ version \in Versions
    /\ payload \in Payloads
    /\ peer \in Peers
    /\ FrameRest
    /\ DecodeRest
    /\ LifeIdle

FrameNext ==
    \/ SerializeQuery
    \/ ReceiveStart
    \/ BufReaderRecv
    \/ BufReaderReturn
    \/ ConnRecv

SpecFrame == FrameInit /\ [][FrameNext]_vars

\* one frame sent and the answer of a peer of any version received by receive
\* and async_receive
VersionInit ==
    /\ max_pool_size = 1
    /\ ExchangeInit
    /\ facade = "base"
    /\ BuilderRest
    /\ impl \in {"blocking", "async"}
    /\ version \in Versions
    /\ payload \in Payloads
    /\ peer \in PeersWithVersion
    /\ FrameRest
    /\ DecodeRest
    /\ LifeIdle

VersionNext ==
    \/ SerializeQuery
    \/ ReceiveStart
    \/ BufReaderRecv
    \/ BufReaderReturn

SpecVersion == VersionInit /\ [][VersionNext]_vars

\* the receive of a frame that another frame follows on the connection
FramePipelinedNext ==
    \/ SerializeQueryPipelined
    \/ ReceiveStart
    \/ BufReaderRecv
    \/ BufReaderReturn
    \/ ConnRecv

SpecFramePipelined == FrameInit /\ [][FramePipelinedNext]_vars

\* the receive of an answer whose peer may close its end at any point
FrameCloseNext ==
    \/ SerializeQuery
    \/ ReceiveStart
    \/ BufReaderRecv
    \/ BufReaderReturn
    \/ ConnRecv
    \/ PeerClose
    \/ BufReaderRecvEof
    \/ ConnRecvEof

\* the short envelopes are enough for a peer that closes early
FrameCloseInit ==
    /\ FrameInit
    /\ Len(payload) <= max_size_to_read

SpecFrameClose == FrameCloseInit /\ [][FrameCloseNext]_vars

\* a response of the server framed, received over BufReader or AsyncBufReader
\* and decoded
DecodeInit ==
    /\ max_pool_size = 1
    /\ ExchangeInit
    /\ facade = "base"
    /\ BuilderRest
    /\ impl \in {"blocking", "async"}
    /\ version = <<0, 1, 0>>
    /\ envelope \in Envelopes
    /\ trailing \in Trailings
    /\ payload = bincode_serialize(envelope) \o trailing
    /\ peer = HEADER
    /\ FrameRest
    /\ decoded = NotDecoded
    /\ LifeIdle

DecodeNext ==
    \/ SerializeQuery
    \/ ReceiveStart
    \/ BufReaderRecv
    \/ BufReaderReturn
    \/ DeserializeServerResponse

SpecDecode == DecodeInit /\ [][DecodeNext]_vars

\* BaseClient's exchange over a pool of one connection, which every exchange
\* gets after the one before it, with peers that close, stall or misbehave, on
\* either branch of socket_nonblocking
LifeInit ==
    /\ max_pool_size = 1
    /\ ExchangeInit
    /\ facade = "base"
    /\ BuilderRest
    /\ FrameIdle
    /\ DecodeRest
    /\ platform \in {"windows", "linux"}
    /\ LifeRest
    /\ SharedRest
    /\ CleanupRest
    /\ ModelsRest
    /\ CodecRest

LifeNext ==
    \/ \E t \in Threads : LifeCall(t)
    \/ \E t \in Threads : CheckoutNew(t)
    \/ \E t \in Threads : CheckoutIdle(t)
    \/ \E t \in Threads : ConnectFails(t)
    \/ \E t \in Threads : EncodeFails(t)
    \/ \E t \in Threads : LifeSend(t)
    \/ \E t \in Threads : SendFails(t)
    \/ \E c \in Conns : LifeServerRespond(c)
    \/ \E t \in Threads : LifeReceive(t)
    \/ \E t \in Threads : ReceiveFakeServer(t)
    \/ \E t \in Threads : ReceiveDecodeFails(t)
    \/ \E t \in Threads : ReceiveTimeout(t)
    \/ \E t \in Threads : ReceiveReset(t)
    \/ \E t \in Threads : Return(t)
    \/ \E c \in Conns : LifePeerClose(c)

SpecLife == LifeInit /\ [][LifeNext]_vars

\* BaseClient's exchange over its pool, closed at any moment no connection is
\* leased; a checkout in progress returns: connection(..., timeout=timeout_sec)
CloseNext ==
    \/ \E t \in Threads : Call(t)
    \/ \E t \in Threads : Checkout(t)
    \/ \E t \in Threads : CheckoutClosed(t)
    \/ \E t \in Threads : Send(t)
    \/ \E c \in Conns : ServerRespond(c)
    \/ \E t \in Threads : Receive(t)
    \/ \E t \in Threads : Return(t)
    \/ \E t \in Threads : Again(t)
    \/ Cleanup
    \/ CleanupWhileWaiting

\* one envelope written and one response stream received by the blocking and
\* by the asynchronous protocol; the peer may send another token, put bytes
\* behind the envelope, close or go silent at any point
ModelsInit ==
    /\ max_pool_size = 1
    /\ ExchangeInit
    /\ facade = "base"
    /\ BuilderRest
    /\ impl = "blocking"
    /\ version \in Versions
    /\ envelope \in Envelopes
    /\ trailing \in {<<>>, <<7>>}
    /\ payload = bincode_serialize(envelope) \o trailing
    /\ peer \in Peers
    /\ FrameRest
    /\ decoded = NotDecoded
    /\ LifeIdle

ModelsNext ==
    \/ SendBoth
    \/ PeerStall
    \/ PeerClose
    \/ ReceiveBoth

SpecModels == ModelsInit /\ [][ModelsNext]_vars

\* an envelope of either kind encoded and decoded again
CodecInit ==
    /\ max_pool_size = 1
    /\ ExchangeInit
    /\ facade = "base"
    /\ BuilderRest
    /\ FrameIdle
    /\ envelope \in Envelopes
    /\ trailing = <<>>
    /\ decoded = NotDecoded
    /\ platform = "linux"
    /\ LifeRest
    /\ SharedRest
    /\ CleanupRest
    /\ ModelsRest
    /\ server_query \in ServerQueries
    /\ codec = NoRoundTrip

CodecNext ==
    \/ RoundTripServerQuery
    \/ RoundTripServerResult

SpecCodec == CodecInit /\ [][CodecNext]_vars

\* BaseClient's exchange over a pool of one connection, and cleanup called
\* again and again between the exchanges
CleanupInit ==
    /\ max_pool_size = 1
    /\ ExchangeInit
    /\ facade = "base"
    /\ BuilderRest
    /\ FrameIdle
    /\ DecodeRest
    /\ LifeIdle

CleanupNext ==
    \/ \E t \in Threads : Call(t)
    \/ \E t \in Threads : Checkout(t)
    \/ \E t \in Threads : CheckoutClosed(t)
    \/ \E t \in Threads : Send(t)
    \/ \E c \in Conns : ServerRespond(c)
    \/ \E t \in Threads : Receive(t)
    \/ \E t \in Threads : Return(t)
    \/ \E t \in Threads : Again(t)
    \/ \E via \in CleanupCallers : CleanupBy(via)

SpecCleanup == CleanupInit /\ [][CleanupNext]_vars

SpecClose ==
    /\ Init
    /\ [][CloseNext]_vars
    /\ \A t \in Threads : WF_vars(CheckoutClosed(t))

(***************************************************************************)
(* Claims about the exchange and the pool.                                 *)
(***************************************************************************)
\* C1: an exchange owns its connection for the whole round trip: while a
\* request is written and its response not yet read, no other exchange holds
\* the connection, and a finished exchange read its response from the
\* connection it wrote its request on.
C1_ExclusiveRoundTrip ==
    /\ \A c \in Conns : \A t \in inflight[c] : holder[c] \in {0, t}
    /\ \A t \in Threads : pc[t] = "done" => sent_on[t] = recv_on[t]

\* C2: the number of simultaneously leased connections never exceeds
\* max_pool_size; with max_pool_size = 1 no two callers hold a connection at
\* the same time.
C2_PoolCeiling ==
    /\ Cardinality(Leased) <= max_pool_size
    /\ max_pool_size = 1 =>
           \A t1, t2 \in Threads : (conn[t1] # 0 /\ conn[t2] # 0) => t1 = t2

\* C2 witness: with a pool of one, a caller holds the connection while another
\* waits at its checkout
C2_Witness ==
    /\ max_pool_size = 1
    /\ \E t1, t2 \in Threads : conn[t1] # 0 /\ pc[t2] = "checkout" /\ t1 # t2

(***************************************************************************)
(* Claims about the builders and the facades.                              *)
(***************************************************************************)
\* C3: executing a pipeline of N appended requests against a conforming
\* server returns exactly N outcomes, N >= 1, and outcome i is the outcome of
\* the i-th appended request.
C3_PositionalAlignment ==
    (call.op = "exec" /\ call.handed /\ call.conforming) =>
        /\ call.error = "none"
        /\ Len(call.expected) >= 1
        /\ Len(call.results) = Len(call.expected)
        /\ \A i \in 1..Len(call.expected) : call.results[i].of = call.expected[i]

\* C3 witness: a batch of three, ping first, whose second request failed at
\* the server while the first and the third succeeded
C3_Witness ==
    /\ call.op = "exec" /\ call.handed /\ call.conforming
    /\ Len(call.results) = 3
    /\ call.expected[1].kind = "Ping"
    /\ call.expected[2].kind = "CreateStore"
    /\ call.expected[3].kind = "GetSimN"
    /\ call.results[1].ok /\ ~call.results[2].ok /\ call.results[3].ok

\* C4: a response with a number of outcomes different from the number of
\* requests sent ends the exchange in a failure; the shorter or longer outcome
\* list is never returned to the caller.
C4_CountMismatchFails ==
    (call.handed /\ Len(call.results) # Len(call.message)) => call.error # "none"

\* C5: to_server_query (and so exec) on an empty pending list raises
\* AhnlichClientException and hands no envelope to the exchange; no envelope
\* with zero requests is ever handed to the exchange.
C5_EmptyBatchRejected ==
    /\ (call.op = "exec" /\ call.before = <<>>) =>
           (call.error = "AhnlichClientException" /\ ~call.handed)
    /\ call.handed => Len(call.message) >= 1

\* C5 witness: exec raised on a builder that an earlier to_server_query had
\* consumed and that was not refilled
C5_Witness ==
    /\ call.op = "exec" /\ call.before = <<>>
    /\ drained[call.builder]
    /\ call.error = "AhnlichClientException"

\* C6: get_sim_n with closest_n <= 0 fails with the validation error before
\* process_request is reached, and no GetSimN request with a non-positive
\* closest_n is ever pending in a builder or part of a handed envelope.
C6_NonPositiveClosestN ==
    /\ (call.op \in {"append", "single"} /\ call.kind = "GetSimN" /\ call.arg <= 0) =>
           (call.error = "NonZeroSizeInteger" /\ ~call.handed)
    /\ \A b \in Builders : \A i \in 1..Len(queries[b]) :
           queries[b][i].kind = "GetSimN" => queries[b][i].arg >= 1
    /\ \A i \in 1..Len(call.message) :
           call.message[i].kind = "GetSimN" => call.message[i].arg >= 1

\* C6 witness: a single-shot get_sim_n with closest_n = 0 raised
C6_Witness ==
    /\ call.op = "single" /\ call.kind = "GetSimN" /\ call.arg = 0
    /\ call.error = "NonZeroSizeInteger"

\* C7: every single-shot facade operation hands the exchange a batch of
\* exactly one request, the one it constructed, whatever was appended before
\* to a builder obtained from pipeline(); against a conforming server its
\* result list has exactly one outcome.
C7_SingleShotBatchOfOne ==
    (call.op = "single" /\ call.handed) =>
        /\ call.message = <<Query(call.kind, call.arg)>>
        /\ call.conforming => Len(call.results) = 1

C8_FramingRoundTrip ==
    peer = HEADER =>
        /\ stage # "failed"
        /\ stage = "done" => decoder_input = payload

\* C9: serialize_query returns the magic token, the 5 version bytes, the
\* payload length as 8 bytes little-endian and the payload: 21 + N bytes, of
\* which bytes 13..20 (counted from 0) decode to N.
C9_FrameLayout ==
    stage # "unsent" =>
        LET N == Len(payload) IN
        /\ Len(frame) = 21 + N
        /\ SubSeq(frame, 1, 8) = <<65, 72, 78, 76, 73, 67, 72, 59>>
        /\ SubSeq(frame, 9, 13) =
               <<version[1], version[2] % 256, version[2] \div 256,
                 version[3] % 256, version[3] \div 256>>
        /\ SubSeq(frame, 14, 21) = <<N % 256, (N \div 256) % 256, 0, 0, 0, 0, 0, 0>>
        /\ FromBytesLittle(SubSeq(frame, 14, 21)) = N
        /\ SubSeq(frame, 22, Len(frame)) = payload

\* C9 witness: a frame built around a payload whose length needs two bytes,
\* for a version whose minor and patch need two bytes
C9_Witness ==
    /\ stage # "unsent"
    /\ Len(payload) > 255
    /\ version[2] > 255 /\ version[3] > 255

\* C10: when the first 8 bytes of the response are not the magic token,
\* receive raises the protocol exception ("Fake server") with nothing read
\* beyond those 8 bytes, and hands nothing to the decoder.
C10_BadMagicRejected ==
    peer # HEADER =>
        /\ stage \in {"unsent", "sent", "header", "failed"}
        /\ stage = "failed" =>
              /\ recv_error = "Fake server"
              /\ bytes_read <= 8
              /\ impl \in {"blocking", "async"} => bytes_read = 8
              /\ decoder_input = <<>>

\* C10 witness: the receive over BufReader failed on a wrong token with the
\* rest of the frame still unread
C10_Witness ==
    /\ peer # HEADER
    /\ impl \in {"blocking", "async"}
    /\ stage = "failed"
    /\ bytes_read = 8
    /\ Len(stream) = 13 + Len(payload)
    /\ Len(payload) > 0

\* C11: when the peer has closed before sending any byte, so that the first
\* read of receive returns zero bytes, receive fails with
\* AhnlichProtocolException("socket connection broken").
C11_ClosedBeforeAnyByte ==
    (eof_reads > 0 /\ bytes_read = 0) =>
        (stage = "failed" /\ recv_error = "socket connection broken")

\* C12: receive passes a field only when all the bytes it asked for have
\* arrived, and once a read has returned zero bytes inside a field (the stream
\* closed before the count was reached) it has stopped with a failure: it does
\* not take the short field as complete and it does not read again.
C12_LoopUntilCompleteOrClosed ==
    /\ stage \in {"version", "length", "data", "done"} => bytes_read >= 8
    /\ stage \in {"length", "data", "done"} => bytes_read >= 13
    /\ stage \in {"data", "done"} => bytes_read >= 21
    /\ stage = "done" => bytes_read = 21 + Len(decoder_input)
    /\ eof_reads > 0 => stage = "failed"
    /\ eof_reads <= 1

C15_FailedConnectionDiscarded ==
    \A c \in Conns :
        conn_failure[c] \in {"network", "fake_server"} => conn_state[c] # "leased"

\* C16: a connection whose exchange ended in a read timeout is never leased
\* again, and a connection just leased, on which its exchange has not yet
\* written, holds no unread and no half-read response bytes.
C16_TimeoutDiscardsConnection ==
    /\ \A c \in Conns : conn_failure[c] = "timeout" => conn_state[c] # "leased"
    /\ \A t \in Threads :
           pc[t] = "send" => (wire_in[conn[t]] = <<>> /\ ~residue[conn[t]])

\* C17: a call that ended in an encoding failure has checked no connection
\* out of the pool and has written nothing.
C17_EncodeFailureIsLocal ==
    \A t \in Threads :
        failure[t] = "encode" => (~leased_in_call[t] /\ sent_on[t] = 0)

\* C18: the liveness check at checkout never passes an idle connection whose
\* peer has closed: such a connection is not leased but replaced.
C18_StaleConnectionReplaced ==
    check.result = "alive" => check.peer_open

\* C19: check_aliveness reports dead when the peek returns zero bytes, alive
\* when it returns a byte, and alive when no data is pending and the peer is
\* still open, under timeout 0 and under timeout 1e-9.
C19_PeekVerdicts ==
    /\ check.peek = "empty" => check.result = "dead"
    /\ check.peek = "byte" => check.result = "alive"
    /\ (check.timeout \in {"0", "1e-9"} /\ ~check.pending /\ check.peer_open
          /\ check.peek # "BlockingOther") => check.result = "alive"

\* C20: an I/O error of the peek other than "would block" makes
\* check_aliveness report dead; it is not raised to the caller of the checkout.
C20_OtherErrorsReportDead ==
    check.peek \in {"OSError", "BlockingOther"} => check.result = "dead"

\* C21: the liveness check consumes no application byte: what the next
\* receive finds on the connection is the same after check_aliveness as
\* before it, whatever the result.
C21_PeekConsumesNothing ==
    check.result # "none" => check.after = check.before

\* a check that found a response frame pending, answered alive, and leased
\* the connection
C21_Witness ==
    /\ check.result = "alive"
    /\ check.peek = "byte"
    /\ check.before.wire_in # <<>>
    /\ ~check.before.residue
    /\ \E t \in Threads : pc[t] = "send" /\ Available(conn[t]) = check.before

\* C25: a failure of the checkout, the send or the receive reaches the caller
\* with no retry inside process_request: one call checks out at most one
\* connection and writes its request at most once, and a call that failed
\* has stopped.
C25_NoSilentRetry ==
    \A t \in Threads :
       /\ attempts[t].checkouts <= 1
       /\ attempts[t].writes <= 1
       /\ attempts[t].writes <= attempts[t].checkouts
       /\ failure[t] # "none" => pc[t] = "failed"

\* a call that checked out, wrote once and failed in its receive
C25_Witness ==
    \E t \in Threads :
       /\ pc[t] = "failed"
       /\ failure[t] \in {"timeout", "network", "fake_server"}
       /\ attempts[t] = [checkouts |-> 1, writes |-> 1]

\* C29: a call that checked a connection out gives it up once, however it
\* ends: the leased connections are those of the calls inside their with
\* block, so that a call that has returned or raised leaves as many
\* connections leased as it found.
C29_LeaseGivenUp ==
    /\ \A t \in Threads :
          /\ pc[t] \in {"idle", "checkout", "done", "failed"} =>
                conn[t] = 0 /\ \A c \in Conns : holder[c] # t
          /\ pc[t] \in {"send", "receive", "release"} =>
                conn[t] # 0 /\ holder[conn[t]] = t
    /\ \A c \in Conns :
          conn_state[c] = "leased" <=> (holder[c] # 0 /\ conn[holder[c]] = c)

\* calls that ended in a receive failure and in a decode failure after having
\* leased the connection, which is idle again
C29_Witness ==
    /\ \E t \in Threads :
          pc[t] = "failed" /\ failure[t] = "decode" /\ leased_in_call[t]
    /\ \E t \in Threads :
          pc[t] = "failed" /\ failure[t] \in {"timeout", "network"} /\ leased_in_call[t]
    /\ Leased = {}
    /\ \E c \in Conns : conn_state[c] = "idle"

C23_ModelsEquivalent ==
    /\ written.blocking = written.async
    /\ stage = "compared" => outcome.blocking = outcome.async

\* C24: when the peer sends nothing or stops inside a frame without closing,
\* the blocking receive and the asynchronous receive both end in a timeout.
C24_ReceiveTimesOut ==
    (stage = "compared" /\ ~peer_closed /\ StopsMidFrame(stream)) =>
       /\ outcome.blocking.status = "timeout"
       /\ outcome.async.status = "timeout"

WellNumbered(variants, index) ==
    /\ \A i \in 1..Len(variants) :
          variants[i] \in DOMAIN index /\ index[variants[i]] = i - 1
    /\ \A a, b \in DOMAIN index : a # b => index[a] # index[b]
    /\ {index[a] : a \in DOMAIN index} = 0..(Len(variants) - 1)

C30_ConsumesExactlyOneFrame ==
    /\ stage \in Fields => size <= Min(size_to_read, max_size_to_read)
    /\ (peer = HEADER /\ stage = "done") =>
          /\ bytes_read = 21 + Len(payload)
          /\ stream = FollowingFrame

\* C31: a builder call rejected for a non-positive integer (create_store with
\* dimension <= 0, get_sim_n with closest_n <= 0) appends nothing and leaves
\* the pending list as it was; an exec that follows a rejected call hands
\* process_request the requests appended before, in their order.
C31_RejectedCallLeavesPending ==
    /\ (call.op = "append" /\ call.error = "NonZeroSizeInteger") =>
          /\ call.arg <= 0
          /\ queries[call.builder] = call.before
          /\ queries[call.builder] = appended[call.builder]
    /\ (call.op = "exec" /\ call.handed /\ call.after_rejection) =>
          /\ call.message = call.before
          /\ call.message = call.expected

\* an exec, right after a rejected call, that sends the two requests appended
\* before it
C31_Witness ==
    /\ call.op = "exec" /\ call.handed /\ call.after_rejection
    /\ Len(call.message) = 2
    /\ call.message[1].kind = "GetSimN" /\ call.message[2].kind = "Ping"

\* C32: when threads call single-shot operations concurrently on one client
\* that keeps a single shared builder, every call hands process_request a
\* batch of exactly its own request, and no call whose arguments are valid
\* fails with "Must have atleast one request to be processed".
C32_ConcurrentCallsSendOwnRequest ==
    \A t \in Threads :
       /\ step[t] = "returned" => handed_to[t] = <<request_of[t]>>
       /\ step[t] = "raised" => raised_with[t] # "AhnlichClientException"

\* C33: after a single-shot operation of a client that keeps one builder has
\* returned or raised, the builder holds no pending request, and the batch a
\* single-shot operation hands to process_request holds its own request only.
C33_BuilderEmptyAfterSingleShot ==
    call.op = "single" =>
       /\ queries[0] = <<>>
       /\ call.handed => call.message = <<Query(call.kind, call.arg)>>

\* C34: on the BaseClient-based clients the builders share no pending state:
\* a call on one builder (an append, a drop, an exec, the pipeline() that made
\* it) leaves the pending list and the tracing id of every other builder as
\* they were, and a single-shot operation of the client leaves those of every
\* pipeline builder as they were.
C34_BuildersShareNothing ==
    [][facade = "base" =>
          \A b \in Builders :
             (call'.op = "single" \/ call'.builder # b) =>
                /\ queries'[b] = queries[b]
                /\ tracing_id'[b] = tracing_id[b]]_vars

\* a single-shot operation answered while the first pipeline builder, drained
\* once before, holds one pending request and the second holds two
C34_Witness ==
    /\ facade = "base" /\ created = {1, 2}
    /\ call.op = "single" /\ call.handed /\ Len(call.message) = 1
    /\ drained[1] /\ Len(queries[1]) = 1 /\ Len(queries[2]) = 2

\* C35: in the pooled AhnlichProtocol a receive that read zero header bytes
\* has closed the connection pool when it raises "socket connection broken";
\* the pool stays closed, opens no connection any more, and a process_request
\* entered afterwards can only fail at its checkout.
C35_EmptyHeaderClosesPool ==
    /\ [](\A t \in Threads :
             failure[t] = "socket connection broken" => pool_closed)
    /\ [][pool_closed =>
             /\ pool_closed'
             /\ \A c \in Conns :
                   conn_state[c] = "absent" => conn_state'[c] = "absent"
             /\ \A t \in Threads :
                   pc[t] \in {"idle", "send_checkout"} =>
                      pc'[t] \in {"idle", "send_checkout", "failed"}]_vars

\* the first thread's receive read an empty header; the process_request the
\* second thread entered has failed at its first checkout
C35_Witness ==
    /\ failure[1] = "socket connection broken" /\ pool_closed
    /\ pc[2] = "failed" /\ failure[2] = "none" /\ sent_on[2] = 0

\* C36: cleanup is idempotent: once cleanup has been called the pool is closed
\* and stays closed, and no call of cleanup, the first or a later one, made
\* by the caller, by the context manager's exit or by __del__, raises.
C36_CleanupIdempotent ==
    cleanup_calls >= 1 => (pool_closed /\ cleanup_error = "none")

\* a third cleanup, made by __del__, in which connection_pool.close() raised
\* ConnectionPoolClosedError
C36_Witness ==
    /\ cleanup_calls = 3 /\ cleanup_via = "del"
    /\ close_error = "ConnectionPoolClosedError"
    /\ cleanup_error = "none" /\ pool_closed

\* C37: the facade operation drop_non_linear_algorithm_index of every client,
\* called with valid arguments, raises nothing of its own and hands
\* process_request a batch of exactly one DropNonLinearAlgorithmIndex request.
C37_DropNonLinearIndexBatchOfOne ==
    (call.op = "single" /\ call.kind = "DropNonLinearAlgorithmIndex") =>
       /\ call.error = "none"
       /\ call.handed
       /\ call.message = <<Query("DropNonLinearAlgorithmIndex", NoArg)>>

\* C38: every envelope to_server_query builds carries the tracing id of its
\* builder as trace_id; no call on a builder changes its tracing id, so the
\* envelopes built after the builder was drained carry the same id.
C38_TraceIdOnEveryEnvelope ==
    /\ []((call.op = "exec" /\ call.handed) =>
             call.trace_id = tracing_id[call.builder])
    /\ [][\A b \in created : tracing_id'[b] = tracing_id[b]]_vars

\* the second envelope of a builder made with a tracing id
C38_Witness ==
    /\ call.op = "exec" /\ call.handed /\ call.drained_before
    /\ call.trace_id = "00-trace-01"
    /\ tracing_id[call.builder] = "00-trace-01"
    /\ queries[call.builder] = <<>>

\* C39: receive and async_receive take exactly 5 bytes for the version after
\* the magic token and accept the frame whatever those bytes are: the answer
\* of a peer of any version never fails, and its payload reaches the decoder
\* whole, 21 + N bytes having been taken, as for a peer of the client's own
\* version.
C39_VersionBytesIgnored ==
    /\ stage # "failed"
    /\ (stage = "length" /\ size_to_read = 8) => bytes_read = 13
    /\ stage = "done" =>
          /\ decoder_input = payload
          /\ bytes_read = 21 + Len(payload)
          /\ stream = <<>>

\* the answer of a peer whose version bytes differ from the client's, received
\* to its end
C39_Witness ==
    /\ stage = "done"
    /\ SubSeq(peer, 9, 13) # VersionBincodeSerialize(version)
    /\ SubSeq(peer, 9, 13) = <<2, 0, 0, 0, 0>>
    /\ decoder_input = payload /\ Len(payload) = 2

====
